---- MODULE Spec2Model ----
(***************************************************************************)
(* petrokit: nodal intersection solver (petrokit/nodal.py), the inflow     *)
(* curves it consumes (petrokit/ipr.py), the outflow curve builders        *)
(* (petrokit/vlp.py), the Beggs-Brill regime map, holdup and pressure      *)
(* gradient (petrokit/multiphase.py) and the Hagedorn-Brown holdup and     *)
(* pressure gradient (petrokit/multiphase_hb.py).                          *)
(*                                                                         *)
(* Every operation of the library is a function of its arguments, so a     *)
(* state is a call: `args` holds the operation and its arguments, `ret`    *)
(* what the call returned (or that it raised).  Init draws the arguments   *)
(* from bounded sets, one action per operation applies it.                 *)
(*                                                                         *)
(* NUMBERS.  A Python float is modelled as a pair <<n, d>>:                *)
(*    d > 0   the rational n/d in lowest terms (arithmetic is exact: the   *)
(*            rounding of IEEE doubles is not modelled),                   *)
(*    d = 0   a non-finite float: <<0,0>> NaN, <<1,0>> +inf, <<-1,0>> -inf.*)
(* Pressures given to _find_intersection are measured in units of          *)
(* 1e-12 psi, so that the absolute tolerance atol = 1e-12 of np.isclose    *)
(* is one unit and samples fall inside and outside of it.                  *)
(***************************************************************************)
EXTENDS Integers, Sequences, FiniteSets, TLC

VARIABLES args, ret

vars == <<args, ret>>

(***************************************************************************)
(* Floats                                                                  *)
(***************************************************************************)
AbsI(x) == IF x < 0 THEN -x ELSE x

RECURSIVE GCD(_, _)
GCD(a, b) == IF b = 0 THEN a ELSE GCD(b, a % b)

\* The rational n/d (d # 0) in lowest terms with a positive denominator.
Rat(n, d) ==
    LET g == GCD(AbsI(n), AbsI(d))
        s == IF d < 0 THEN -1 ELSE 1
    IN  <<(s * n) \div g, (s * d) \div g>>

NaN == <<0, 0>>
PosInf == <<1, 0>>
NegInf == <<-1, 0>>
Zero == <<0, 1>>
One == <<1, 1>>

IntF(k) == <<k, 1>>

isfinite(x) == x[2] # 0
isnan(x) == x = NaN

FNeg(x) == <<-x[1], x[2]>>

\* x + y of two floats (inf + (-inf) and anything with NaN are NaN).
FAdd(x, y) ==
    IF isnan(x) \/ isnan(y) THEN NaN
    ELSE IF ~isfinite(x) /\ ~isfinite(y) THEN (IF x = y THEN x ELSE NaN)
    ELSE IF ~isfinite(x) THEN x
    ELSE IF ~isfinite(y) THEN y
    ELSE LET g == GCD(x[2], y[2])
         IN  Rat(x[1] * (y[2] \div g) + y[1] * (x[2] \div g), (x[2] \div g) * y[2])

FSub(x, y) == FAdd(x, FNeg(y))

\* x * y (cross-cancelled before multiplying when both are finite).
FMul(x, y) ==
    IF isnan(x) \/ isnan(y) THEN NaN
    ELSE IF ~isfinite(x) \/ ~isfinite(y)
    THEN (IF x[1] = 0 \/ y[1] = 0 THEN NaN
          ELSE IF (x[1] > 0) = (y[1] > 0) THEN PosInf ELSE NegInf)
    ELSE LET g1 == GCD(AbsI(x[1]), y[2])
             g2 == GCD(AbsI(y[1]), x[2])
         IN  Rat((x[1] \div g1) * (y[1] \div g2), (x[2] \div g2) * (y[2] \div g1))

\* x / y of two finite floats, y # 0.
FDiv(x, y) == FMul(x, IF y[1] < 0 THEN <<-y[2], -y[1]>> ELSE <<y[2], y[1]>>)

\* x < y of two finite floats: by their integer parts, then by their
\* fractional parts over the common denominator.
LessFinite(x, y) ==
    LET fx == x[1] \div x[2]
        fy == y[1] \div y[2]
        g == GCD(x[2], y[2])
    IN  IF fx # fy THEN fx < fy
        ELSE (x[1] - fx * x[2]) * (y[2] \div g) < (y[1] - fy * y[2]) * (x[2] \div g)

\* Comparisons: every comparison with NaN is false.
FLess(x, y) ==
    IF isnan(x) \/ isnan(y) THEN FALSE
    ELSE IF ~isfinite(x) /\ ~isfinite(y) THEN x[1] < y[1]
    ELSE IF ~isfinite(x) THEN x[1] < 0
    ELSE IF ~isfinite(y) THEN y[1] > 0
    ELSE LessFinite(x, y)
FLeq(x, y) == ~isnan(x) /\ ~isnan(y) /\ ~FLess(y, x)
FAbs(x) == <<AbsI(x[1]), x[2]>>
FMin(x, y) == IF FLess(y, x) THEN y ELSE x
FMax(x, y) == IF FLess(x, y) THEN y ELSE x

\* np.sign of a finite float.
sign(x) == IF x[1] > 0 THEN 1 ELSE IF x[1] < 0 THEN -1 ELSE 0


(***************************************************************************)
(* nodal._find_intersection                                                *)
(***************************************************************************)
\* atol of np.isclose(d, 0.0, atol=1e-12), in units of 1e-12.
atol == One

\* No difference counts as zero.
isclose0_Never(d) == FALSE

\* A tolerance twice too wide.
isclose0_Loose(d) == FLeq(FAbs(d), FAdd(atol, atol))

\* np.isclose(d, 0.0, atol=1e-12) for a finite d: |d - 0| <= atol + rtol*|0|.
isclose0(d) == FLeq(FAbs(d), atol)

\* The indices a boolean mask keeps, in order (q_grid[finite]).
RECURSIVE MaskIdx(_, _)
MaskIdx(mask, i) ==
    IF i > Len(mask) THEN <<>>
    ELSE (IF mask[i] THEN <<i>> ELSE <<>>) \o MaskIdx(mask, i + 1)

\* The least and the greatest element of a non-empty set of integers.
MinOf(S) == CHOOSE x \in S : \A y \in S : x <= y
MaxOf(S) == CHOOSE x \in S : \A y \in S : y <= x

\* np.argmin(np.abs(d)): the first index of the least value.
ArgminAbs(d) ==
    CHOOSE j \in DOMAIN d :
      /\ \A k \in DOMAIN d : FLeq(FAbs(d[j]), FAbs(d[k]))
      /\ \A k \in DOMAIN d : k < j => FLess(FAbs(d[j]), FAbs(d[k]))

Raised == [status |-> "ValueError"]
Returned(q, p) == [status |-> "ok", q |-> q, p |-> p]
Pending == [status |-> "pending"]

\* The mask without the outflow curve.
FiniteMask_NoY2(q_grid, y1, y2, diff) ==
    [i \in DOMAIN q_grid |-> isfinite(q_grid[i]) /\ isfinite(y1[i])]

\* finite = isfinite(diff) & isfinite(q_grid) & isfinite(y1) & isfinite(y2)
FiniteMask(q_grid, y1, y2, diff) ==
    [i \in DOMAIN q_grid |-> isfinite(diff[i]) /\ isfinite(q_grid[i])
                             /\ isfinite(y1[i]) /\ isfinite(y2[i])]

\* The last change of sign instead of the first.
FirstChange_Last(changes) == MaxOf(changes)

\* i = int(changes[0])
FirstChange(changes) == MinOf(changes)

\* The crossing of the chord between the filtered samples i and i + 1.
Interpolate(qg, d, y1g, i) ==
    LET t == FDiv(d[i], FSub(d[i], d[i + 1]))
    IN  Returned(FAdd(qg[i], FMul(t, FSub(qg[i + 1], qg[i]))),
                 FAdd(y1g[i], FMul(t, FSub(y1g[i + 1], y1g[i]))))

\* The top of the grid returned for the no-flow case.
NoFlowPoint_Top(qg, y1g) == Returned(qg[Len(qg)], y1g[Len(qg)])

\* return float(qg[0]), float(y1g[0])
NoFlowPoint(qg, y1g) == Returned(qg[1], y1g[1])

\* The bottom of the grid returned for the grid-limited case.
TopPoint_Bottom(qg, y1g) == Returned(qg[1], y1g[1])

\* return float(qg[-1]), float(y1g[-1])
TopPoint(qg, y1g) == Returned(qg[Len(qg)], y1g[Len(qg)])

\* The sign change looked for before the exact match.
IntersectFinite_SignFirst(qg, d, y1g) ==
    LET n == Len(d)
        zeros == {i \in 1..n : isclose0(d[i])}
        changes == {i \in 1..(n - 1) : sign(d[i]) * sign(d[i + 1]) < 0}
    IN  IF changes # {} THEN Interpolate(qg, d, y1g, FirstChange(changes))
        ELSE IF zeros # {} THEN Returned(qg[MinOf(zeros)], y1g[MinOf(zeros)])
        ELSE IF \A i \in 1..n : d[i][1] < 0 THEN NoFlowPoint(qg, y1g)
        ELSE IF \A i \in 1..n : d[i][1] > 0 THEN TopPoint(qg, y1g)
        ELSE LET j == ArgminAbs(d) IN Returned(qg[j], y1g[j])

\* The cases of _find_intersection on the filtered samples qg, d, y1g, in the
\* order of the code.
IntersectFinite(qg, d, y1g) ==
    LET n == Len(d)
        zeros == {i \in 1..n : isclose0(d[i])}
        changes == {i \in 1..(n - 1) : sign(d[i]) * sign(d[i + 1]) < 0}
    IN  IF zeros # {} THEN Returned(qg[MinOf(zeros)], y1g[MinOf(zeros)])
        ELSE IF changes # {} THEN Interpolate(qg, d, y1g, FirstChange(changes))
        ELSE IF \A i \in 1..n : d[i][1] < 0 THEN NoFlowPoint(qg, y1g)
        ELSE IF \A i \in 1..n : d[i][1] > 0 THEN TopPoint(qg, y1g)
        ELSE LET j == ArgminAbs(d) IN Returned(qg[j], y1g[j])

\* The return statement of _find_intersection that the filtered differences d
\* lead to.
intersect_case(d) ==
    LET n == Len(d)
    IN  IF \E i \in 1..n : isclose0(d[i]) THEN "exact"
        ELSE IF \E i \in 1..(n - 1) : sign(d[i]) * sign(d[i + 1]) < 0 THEN "sign_change"
        ELSE IF \A i \in 1..n : d[i][1] < 0 THEN "no_flow"
        ELSE IF \A i \in 1..n : d[i][1] > 0 THEN "grid_limited"
        ELSE "fallback"

find_intersection(q_grid, y1, y2) ==
    LET n == Len(q_grid)
        diff == [i \in 1..n |-> FSub(y1[i], y2[i])]
        idx == MaskIdx(FiniteMask(q_grid, y1, y2, diff), 1)
    IN  IF idx = <<>> THEN Raised
        ELSE IntersectFinite([k \in 1..Len(idx) |-> q_grid[idx[k]]],
                             [k \in 1..Len(idx) |-> diff[idx[k]]],
                             [k \in 1..Len(idx) |-> y1[idx[k]]])

(***************************************************************************)
(* Calls of _find_intersection on bounded grids                            *)
(***************************************************************************)
MaxLen == 3
YDen == 3

\* The pressures of the bounded grids, in units of 1e-12 / YDen: differences
\* of 0, of a fraction of the tolerance, of the tolerance and of more.
Y1Vals == {Rat(a, YDen) : a \in {0, 4, 5, 9}}
Y2Vals == {Rat(b, YDen) : b \in {2, 3, 4, 7}}

\* One grid point: whether its rate is finite, its inflow pressure and its
\* outflow pressure.  The rate grid is np.linspace(0, q_hi, npts): strictly
\* increasing, here 0, 1, 2, ...  Any of the three floats of a point may be
\* non-finite.
Points ==
    {<<TRUE, a, b>> : a \in Y1Vals, b \in Y2Vals}
    \cup {<<FALSE, One, One>>, <<TRUE, NaN, One>>, <<TRUE, One, PosInf>>}

FIArgs(g) ==
    [op |-> "find_intersection",
     q_grid |-> [i \in DOMAIN g |-> IF g[i][1] THEN IntF(i - 1) ELSE NaN],
     y1 |-> [i \in DOMAIN g |-> g[i][2]],
     y2 |-> [i \in DOMAIN g |-> g[i][3]]]

InitFI ==
    /\ \E n \in 1..MaxLen : \E g \in [1..n -> Points] : args = FIArgs(g)
    /\ ret = Pending

CallFindIntersection ==
    /\ args.op = "find_intersection"
    /\ ret = Pending
    /\ ret' = find_intersection(args.q_grid, args.y1, args.y2)
    /\ UNCHANGED args

NextFI == CallFindIntersection

SpecFI == InitFI /\ [][NextFI]_vars

(***************************************************************************)
(* ipr.py: inflow models and their curves.  An array is a sequence.        *)
(***************************************************************************)
\* np.linspace(a, b, n), n >= 2: a + (b - a) k / (n - 1), k = 0 .. n - 1.
linspace(a, b, n) ==
    [k \in 1..n |-> FAdd(a, FMul(FSub(b, a), Rat(k - 1, n - 1)))]

\* np.clip(x, lo, hi)
clip(x, lo, hi) == FMin(FMax(x, lo), hi)

\* _require_positive does not raise.
require_positive(value, allow_zero) ==
    IF allow_zero THEN FLeq(Zero, value) ELSE FLess(Zero, value)

\* 1 - 0.2 x - 0.8 x^2
VogelShape(x) ==
    FSub(FSub(One, FMul(Rat(1, 5), x)), FMul(Rat(4, 5), FMul(x, x)))

\* vogel_ipr at one pressure (its arguments already validated).
vogel_ipr(p_res, q_max, pwf) ==
    LET x == FDiv(clip(pwf, Zero, p_res), p_res)
    IN  FMax(FMul(q_max, VogelShape(x)), Zero)

\* fetkovich_ipr at one pressure.
fetkovich_ipr(p_res, J, pwf) ==
    FMax(FMul(J, FSub(p_res, clip(pwf, Zero, p_res))), Zero)

\* jones_ipr at one pressure, for D = 0 (the branch q = dp / C; the branch
\* D > 0 takes a square root and is outside the arithmetic of the model).
jones_ipr(p_res, C, D, pwf) ==
    FMax(FDiv(FSub(p_res, clip(pwf, Zero, p_res)), C), Zero)

\* standing_ipr at one pressure (0 < p_b < p_res and denom > 0 checked by
\* the caller below).
standing_ipr(p_res, p_b, J, pwf) ==
    LET pw == clip(pwf, Zero, p_res)
        q_linear == FMul(J, FSub(p_res, pw))
        q_b == FMul(J, FSub(p_res, p_b))
        denom == VogelShape(FDiv(p_b, p_res))
        q_vogel == FMul(FDiv(q_b, denom), VogelShape(FDiv(pw, p_res)))
    IN  FMax(IF FLeq(p_b, pw) THEN q_linear ELSE q_vogel, Zero)

Curve(pwf, q) == [status |-> "ok", pwf |-> pwf, q |-> q]

ipr_curve_vogel(p_res, q_max, npts) ==
    IF ~require_positive(p_res, FALSE) \/ ~require_positive(q_max, TRUE) \/ npts < 2
    THEN Raised
    ELSE LET pwf == linspace(Zero, p_res, npts)
         IN  Curve(pwf, [k \in 1..npts |-> vogel_ipr(p_res, q_max, pwf[k])])

ipr_curve_fetkovich(p_res, J, npts) ==
    IF ~require_positive(p_res, FALSE) \/ ~require_positive(J, FALSE) \/ npts < 2
    THEN Raised
    ELSE LET pwf == linspace(Zero, p_res, npts)
         IN  Curve(pwf, [k \in 1..npts |-> fetkovich_ipr(p_res, J, pwf[k])])

ipr_curve_jones(p_res, C, D, npts) ==
    IF ~require_positive(p_res, FALSE) \/ ~require_positive(C, FALSE)
       \/ FLess(D, Zero) \/ npts < 2
    THEN Raised
    ELSE LET pwf == linspace(Zero, p_res, npts)
         IN  Curve(pwf, [k \in 1..npts |-> jones_ipr(p_res, C, D, pwf[k])])

ipr_curve_standing(p_res, p_b, J, npts) ==
    IF ~require_positive(p_res, FALSE) \/ ~require_positive(p_b, FALSE)
       \/ ~require_positive(J, FALSE) \/ npts < 2
    THEN Raised
    ELSE IF ~(FLess(Zero, p_b) /\ FLess(p_b, p_res)) THEN Raised
    ELSE IF FLeq(VogelShape(FDiv(p_b, p_res)), Zero) THEN Raised
    ELSE LET pwf == linspace(Zero, p_res, npts)
         IN  Curve(pwf, [k \in 1..npts |-> standing_ipr(p_res, p_b, J, pwf[k])])

(***************************************************************************)
(* nodal._interp_pwf_from_ipr_curve                                        *)
(***************************************************************************)
Reverse(s) == [k \in 1..Len(s) |-> s[Len(s) + 1 - k]]

\* The least and the greatest float of a non-empty sequence.
SeqMin(s) == CHOOSE x \in {s[k] : k \in DOMAIN s} : \A k \in DOMAIN s : FLeq(x, s[k])
SeqMax(s) == CHOOSE x \in {s[k] : k \in DOMAIN s} : \A k \in DOMAIN s : FLeq(s[k], x)

\* np.interp(x, xp, fp) at one x with xp[1] <= x <= xp[n], xp non-decreasing:
\* j is the last index with xp[j] <= x; fp[j] at the last index or at a knot,
\* the chord from knot j to knot j + 1 otherwise.
interp(x, xp, fp) ==
    LET n == Len(xp)
        j == MaxOf({k \in 1..n : FLeq(xp[k], x)})
    IN  IF j = n THEN fp[j]
        ELSE IF xp[j] = x THEN fp[j]
        ELSE FAdd(fp[j], FMul(FDiv(FSub(fp[j + 1], fp[j]), FSub(xp[j + 1], xp[j])),
                              FSub(x, xp[j])))

interp_pwf_from_ipr_curve(pwf_ipr, q_ipr, q_grid) ==
    LET q_sorted == Reverse(q_ipr)
        pwf_sorted == Reverse(pwf_ipr)
        q_min == SeqMin(q_sorted)
        q_max == SeqMax(q_sorted)
    IN  [k \in DOMAIN q_grid |->
            interp(clip(q_grid[k], q_min, q_max), q_sorted, pwf_sorted)]

(***************************************************************************)
(* Model names.  A str is the sequence of its characters.                  *)
(***************************************************************************)
Whitespace == {" ", "\t", "\n"}
UpperCase == <<"A", "B", "C", "D", "E", "F", "G", "H", "I", "J", "K", "L", "M",
               "N", "O", "P", "Q", "R", "S", "T", "U", "V", "W", "X", "Y", "Z">>
LowerCase == <<"a", "b", "c", "d", "e", "f", "g", "h", "i", "j", "k", "l", "m",
               "n", "o", "p", "q", "r", "s", "t", "u", "v", "w", "x", "y", "z">>

\* str.strip()
RECURSIVE lstrip(_)
lstrip(s) == IF s # <<>> /\ Head(s) \in Whitespace THEN lstrip(Tail(s)) ELSE s
RECURSIVE rstrip(_)
rstrip(s) ==
    IF s # <<>> /\ s[Len(s)] \in Whitespace THEN rstrip(SubSeq(s, 1, Len(s) - 1)) ELSE s
strip(s) == rstrip(lstrip(s))

\* str.lower()
lower(s) ==
    [k \in DOMAIN s |->
        IF \E u \in DOMAIN UpperCase : UpperCase[u] = s[k]
        THEN LowerCase[CHOOSE u \in DOMAIN UpperCase : UpperCase[u] = s[k]]
        ELSE s[k]]

\* str.replace(old, new) for one-character old and new
replace(s, old, new) == [k \in DOMAIN s |-> IF s[k] = old THEN new ELSE s[k]]

norm_model_NoLower(name) == replace(replace(strip(name), "-", "_"), " ", "_")

\* _norm_model
norm_model(name) == replace(replace(lower(strip(name)), "-", "_"), " ", "_")

S_vogel == <<"v", "o", "g", "e", "l">>
S_fetkovich == <<"f", "e", "t", "k", "o", "v", "i", "c", "h">>
S_jones == <<"j", "o", "n", "e", "s">>
S_standing == <<"s", "t", "a", "n", "d", "i", "n", "g">>
S_darcy == <<"d", "a", "r", "c", "y">>
S_darcy_weisbach == <<"d", "a", "r", "c", "y", "_", "w", "e", "i", "s", "b", "a", "c", "h">>
S_beggs_brill == <<"b", "e", "g", "g", "s", "_", "b", "r", "i", "l", "l">>
S_bb == <<"b", "b">>
S_hagedorn_brown == <<"h", "a", "g", "e", "d", "o", "r", "n", "_", "b", "r", "o", "w", "n">>
S_hb == <<"h", "b">>
S_beggs_brill_blackoil == <<"b", "e", "g", "g", "s", "_", "b", "r", "i", "l", "l", "_", "b", "l", "a", "c", "k", "o", "i", "l">>
S_bb_blackoil == <<"b", "b", "_", "b", "l", "a", "c", "k", "o", "i", "l">>
S_beggsbrill_blackoil == <<"b", "e", "g", "g", "s", "b", "r", "i", "l", "l", "_", "b", "l", "a", "c", "k", "o", "i", "l">>
S_darcy_dash_weisbach == <<"d", "a", "r", "c", "y", "-", "w", "e", "i", "s", "b", "a", "c", "h">>
S_beggs_dash_brill == <<"b", "e", "g", "g", "s", "-", "b", "r", "i", "l", "l">>
S_hagedorn_dash_brown == <<"h", "a", "g", "e", "d", "o", "r", "n", "-", "b", "r", "o", "w", "n">>

available_vlp_models ==
    <<S_darcy, S_beggs_brill, S_beggs_brill_blackoil, S_hagedorn_brown>>

(***************************************************************************)
(* vlp.py: outflow curves.  Lengths, diameters, densities and rates are    *)
(* measured in units in which the conversion constants of the code are 1:  *)
(* d / 12 and rho / 144 are d and rho, stb_to_ft3 / (pi / 4) is 1 and      *)
(* g is 1.  A kwargs dict is a function from its keys to their values.    *)
(***************************************************************************)
RaisedTypeError == [status |-> "TypeError"]
Array(a) == [status |-> "ok", a |-> a]

\* kwargs.get(key, default)
get(kwargs, key, default) == IF key \in DOMAIN kwargs THEN kwargs[key] ELSE default

\* The default friction factor f = 0.02.
f_default == Rat(1, 50)

\* A kwargs value that is no number: an object whose __float__ raises the
\* exception exc.  Numbers are pairs, so a one-element tuple is none.
Unfloatable(exc) == <<exc>>

\* float(kwargs.get(key, default)) raises.
float_raises(kwargs, key) == key \in DOMAIN kwargs /\ Len(kwargs[key]) = 1

\* The exception that float(kwargs[key]) raises.
FloatError(kwargs, key) == [status |-> kwargs[key][1]]

RaisedZeroDivisionError == [status |-> "ZeroDivisionError"]

\* The friction head taken off the static head.
vlp_curve_FrictionOff(q_range, well_depth, rho, mu, d, f) ==
    IF d = Zero THEN RaisedZeroDivisionError
    ELSE Array([k \in DOMAIN q_range |->
        FSub(FMul(rho, well_depth),
             FMul(FMul(FMul(f, FDiv(well_depth, d)), rho),
                  FDiv(FMul(FDiv(q_range[k], FMul(d, d)), FDiv(q_range[k], FMul(d, d))),
                       IntF(2))))])

\* vlp_curve: delta_p_fric + delta_p_hydro at every rate.  Nothing is
\* validated; well_depth / d_ft divides two Python floats and raises
\* ZeroDivisionError for d = 0.
vlp_curve(q_range, well_depth, rho, mu, d, f) ==
    IF d = Zero THEN RaisedZeroDivisionError
    ELSE Array([k \in DOMAIN q_range |->
        LET d_ft == d
            A == FMul(d_ft, d_ft)
            v == FDiv(q_range[k], A)
            delta_p_fric == FMul(FMul(FMul(f, FDiv(well_depth, d_ft)), rho),
                                 FDiv(FMul(v, v), IntF(2)))
            delta_p_hydro == FMul(rho, well_depth)
        IN  FAdd(delta_p_fric, delta_p_hydro)])

\* The sine without its sign: downhill weighs like uphill.
sin_deg_Unsigned(theta_deg) ==
    IF theta_deg = IntF(90) \/ theta_deg = IntF(-90) THEN One
    ELSE IF theta_deg = IntF(50) \/ theta_deg = IntF(-50) THEN Rat(77, 100)
    ELSE IF theta_deg = IntF(80) \/ theta_deg = IntF(-80) THEN Rat(49, 50)
    ELSE Zero

\* np.sin(np.deg2rad(theta_deg)) at the inclinations of the model: 0, 90 and
\* -90 degrees, 50, -50, 80 and -80 degrees to 2 significant digits, and 180
\* and -180 degrees, where the sine is 1e-16.
sin_deg(theta_deg) ==
    IF theta_deg = IntF(90) THEN One
    ELSE IF theta_deg = IntF(-90) THEN IntF(-1)
    ELSE IF theta_deg = IntF(50) THEN Rat(77, 100)
    ELSE IF theta_deg = IntF(-50) THEN Rat(-77, 100)
    ELSE IF theta_deg = IntF(80) THEN Rat(49, 50)
    ELSE IF theta_deg = IntF(-80) THEN Rat(-49, 50)
    ELSE Zero

\* The gas rate of every grid entry: q_gas_range_mscf_d, or the constant
\* q_gas_mscf_d (default 0.0); both at once and a range of another length
\* raise ValueError.
gas_rates(q_range, kwargs) ==
    LET n == Len(q_range)
        has_const == "q_gas_mscf_d" \in DOMAIN kwargs
        has_range == "q_gas_range_mscf_d" \in DOMAIN kwargs
    IN  IF has_const /\ has_range THEN Raised
        ELSE IF has_range /\ Len(kwargs["q_gas_range_mscf_d"]) # n THEN Raised
        ELSE Array([k \in 1..n |->
                      IF has_range THEN kwargs["q_gas_range_mscf_d"][k]
                      ELSE get(kwargs, "q_gas_mscf_d", Zero)])

\* No static column: the gradient correlation is called for every entry.
calls_gradient_Always(ql, qg) == TRUE

\* The test of the static column, negated: not (ql <= 0.0 and qg <= 0.0).
calls_gradient(ql, qg) == ~(FLeq(ql, Zero) /\ FLeq(qg, Zero))

\* The loop over the grid of vlp_curve_beggs_brill and
\* vlp_curve_hagedorn_brown (the two builders differ in the gradient
\* correlation they call).  ext holds what the collaborators return:
\* ext.dp_dz[k] is dp_dz_psi_per_ft of the gradient correlation for the k-th
\* grid entry, ext.raises the entries for which the correlation raises,
\* ext.rho_l the liquid density of the PVT table.
\* The loop with the gradient of the first entry used for every entry.
vlp_loop_FirstGradient(q_range, qg_mscf_d, well_depth, rho, kwargs, ext) ==
    IF \E k \in DOMAIN q_range : calls_gradient(q_range[k], qg_mscf_d[k]) /\ k \in ext.raises
    THEN Raised
    ELSE Array([k \in DOMAIN q_range |->
             IF calls_gradient(q_range[k], qg_mscf_d[k])
             THEN FAdd(get(kwargs, "p_wh", Zero), FMul(ext.dp_dz[1], well_depth))
             ELSE FAdd(get(kwargs, "p_wh", Zero),
                       FMul(FMul(rho, sin_deg(get(kwargs, "theta_deg", IntF(90)))),
                            well_depth))])

vlp_loop(q_range, qg_mscf_d, well_depth, rho, kwargs, ext) ==
    LET theta_deg == get(kwargs, "theta_deg", IntF(90))
        p_wh == get(kwargs, "p_wh", Zero)
        sin_theta == sin_deg(theta_deg)
    IN  IF \E k \in DOMAIN q_range :
               calls_gradient(q_range[k], qg_mscf_d[k]) /\ k \in ext.raises
        THEN Raised
        ELSE Array([k \in DOMAIN q_range |->
                 IF calls_gradient(q_range[k], qg_mscf_d[k])
                 THEN FAdd(p_wh, FMul(ext.dp_dz[k], well_depth))
                 ELSE FAdd(p_wh, FMul(FMul(rho, sin_theta), well_depth))])

\* theta_deg and p_wh are converted with float() before anything else.
vlp_curve_multiphase(q_range, well_depth, rho, mu, d, kwargs, ext) ==
    LET qg == gas_rates(q_range, kwargs)
    IN  IF float_raises(kwargs, "theta_deg") THEN FloatError(kwargs, "theta_deg")
        ELSE IF float_raises(kwargs, "p_wh") THEN FloatError(kwargs, "p_wh")
        ELSE IF qg.status # "ok" THEN qg
        ELSE vlp_loop(q_range, qg.a, well_depth, rho, kwargs, ext)

vlp_curve_beggs_brill(q_range, well_depth, rho, mu, d, kwargs, ext) ==
    vlp_curve_multiphase(q_range, well_depth, rho, mu, d, kwargs, ext)

\* The rates of vlp_curve_hagedorn_brown are Python floats, and their
\* division by the area raises ZeroDivisionError for d = 0.
vlp_curve_hagedorn_brown(q_range, well_depth, rho, mu, d, kwargs, ext) ==
    LET qg == gas_rates(q_range, kwargs)
    IN  IF float_raises(kwargs, "theta_deg") THEN FloatError(kwargs, "theta_deg")
        ELSE IF float_raises(kwargs, "p_wh") THEN FloatError(kwargs, "p_wh")
        ELSE IF qg.status # "ok" THEN qg
        ELSE IF d = Zero /\ \E k \in DOMAIN q_range : calls_gradient(q_range[k], qg.a[k])
        THEN RaisedZeroDivisionError
        ELSE vlp_loop(q_range, qg.a, well_depth, rho, kwargs, ext)

\* vlp_curve_beggs_brill_blackoil: t_f, api and gamma_g are required; the
\* liquid density is rho_sto / bo of the PVT table, not the rho of the caller.
vlp_curve_beggs_brill_blackoil(q_range, well_depth, rho, mu, d, kwargs, ext) ==
    IF ~({"t_f", "api", "gamma_g"} \subseteq DOMAIN kwargs) THEN RaisedTypeError
    ELSE vlp_curve_beggs_brill(q_range, well_depth, ext.rho_l, mu, d, kwargs, ext)

vlp_curve_model(model, q_range, well_depth, rho, mu, d, kwargs, ext) ==
    LET m == norm_model(model)
    IN  IF m \in {S_darcy, S_darcy_weisbach, S_darcy_dash_weisbach}
        THEN (IF float_raises(kwargs, "f") THEN FloatError(kwargs, "f")
              ELSE vlp_curve(q_range, well_depth, rho, mu, d, get(kwargs, "f", f_default)))
        ELSE IF m \in {S_beggs_brill, S_beggs_dash_brill, S_bb}
        THEN vlp_curve_beggs_brill(q_range, well_depth, rho, mu, d, kwargs, ext)
        ELSE IF m \in {S_hagedorn_brown, S_hagedorn_dash_brown, S_hb}
        THEN vlp_curve_hagedorn_brown(q_range, well_depth, rho, mu, d, kwargs, ext)
        ELSE IF m \in {S_beggs_brill_blackoil, S_bb_blackoil, S_beggsbrill_blackoil}
        THEN vlp_curve_beggs_brill_blackoil(q_range, well_depth, rho, mu, d, kwargs, ext)
        ELSE Raised

(***************************************************************************)
(* nodal.nodal_analysis_detail and nodal.nodal_analysis                    *)
(***************************************************************************)
\* The least npts that nodal_analysis_detail accepts.
NptsMin == 10

NodalResult(q_op, pwf_op, q_grid, pwf_ipr_on_q, pwf_vlp_on_q, ipr_model, vlp_model) ==
    [status |-> "ok", q_op |-> q_op, pwf_op |-> pwf_op, q_grid |-> q_grid,
     pwf_ipr_on_q |-> pwf_ipr_on_q, pwf_vlp_on_q |-> pwf_vlp_on_q,
     ipr_model |-> ipr_model, vlp_model |-> vlp_model]

\* The inflow curve of the requested model, or the error of its selection.
ipr_dispatch(ipr_m, p_res, q_max, npts, ipr_kwargs) ==
    IF ipr_m = S_vogel THEN ipr_curve_vogel(p_res, q_max, npts)
    ELSE IF ipr_m = S_fetkovich
    THEN (IF "J" \notin DOMAIN ipr_kwargs THEN Raised
          ELSE ipr_curve_fetkovich(p_res, ipr_kwargs["J"], npts))
    ELSE IF ipr_m = S_jones
    THEN (IF "C" \notin DOMAIN ipr_kwargs \/ "D" \notin DOMAIN ipr_kwargs THEN Raised
          ELSE ipr_curve_jones(p_res, ipr_kwargs["C"], ipr_kwargs["D"], npts))
    ELSE IF ipr_m = S_standing
    THEN (IF "p_b" \notin DOMAIN ipr_kwargs \/ "J" \notin DOMAIN ipr_kwargs THEN Raised
          ELSE ipr_curve_standing(p_res, ipr_kwargs["p_b"], ipr_kwargs["J"], npts))
    ELSE Raised

\* An upper end of the rate grid twice too far.
q_hi_Double(q_max, q_ipr) ==
    LET hi == IF FLess(Zero, q_max) THEN FAdd(q_max, q_max) ELSE SeqMax(q_ipr)
    IN  IF FLeq(hi, Zero) THEN One ELSE hi

\* The upper end of the rate grid.
q_hi(q_max, q_ipr) ==
    LET hi == IF FLess(Zero, q_max) THEN q_max ELSE SeqMax(q_ipr)
    IN  IF FLeq(hi, Zero) THEN One ELSE hi

\* The intersection with the two curves exchanged.
OperatingPoint_Swapped(q_grid, pwf_ipr_on_q, pwf_vlp_on_q) ==
    find_intersection(q_grid, pwf_vlp_on_q, pwf_ipr_on_q)

\* q_op, pwf_op = _find_intersection(q_grid, pwf_ipr_on_q, pwf_vlp_on_q)
OperatingPoint(q_grid, pwf_ipr_on_q, pwf_vlp_on_q) ==
    find_intersection(q_grid, pwf_ipr_on_q, pwf_vlp_on_q)

\* The return statement, or the error of _find_intersection.
nodal_result(q_grid, pwf_ipr_on_q, pwf_vlp_on_q, ipr_m, vlp_m, op) ==
    IF op.status # "ok" THEN op
    ELSE NodalResult(op.q, op.p, q_grid, pwf_ipr_on_q, pwf_vlp_on_q, ipr_m, vlp_m)

\* The intersection of the two curves on the grid, or the error of the outflow
\* builder.
nodal_intersect(q_grid, pwf_ipr_on_q, vlp, ipr_m, vlp_m) ==
    IF vlp.status # "ok" THEN vlp
    ELSE nodal_result(q_grid, pwf_ipr_on_q, vlp.a, ipr_m, vlp_m,
                      OperatingPoint(q_grid, pwf_ipr_on_q, vlp.a))

\* The exceptions that the except clause around vlp_curve_model catches.
Caught == {"ImportError", "AttributeError"}

\* The try statement: the curve of the requested model, and the curve of
\* vlp_curve with f = float(vlp_kwargs.get("f", 0.02)) when evaluating the
\* requested model raises ImportError or AttributeError.  Every other
\* exception propagates, and so does one that the handler itself raises.
nodal_vlp(a, q_grid, vlp_m) ==
    LET requested == vlp_curve_model(vlp_m, q_grid, a.well_depth, a.rho, a.mu, a.d,
                                     a.vlp_kwargs, a.ext)
    IN  IF requested.status \notin Caught THEN requested
        ELSE IF float_raises(a.vlp_kwargs, "f") THEN FloatError(a.vlp_kwargs, "f")
        ELSE vlp_curve(q_grid, a.well_depth, a.rho, a.mu, a.d,
                       get(a.vlp_kwargs, "f", f_default))

\* The two curves on the rate grid.
nodal_curves(a, ipr, q_grid, ipr_m, vlp_m) ==
    nodal_intersect(q_grid,
                    interp_pwf_from_ipr_curve(ipr.pwf, ipr.q, q_grid),
                    nodal_vlp(a, q_grid, vlp_m),
                    ipr_m, vlp_m)

\* The rate grid, or the error of the inflow model.
nodal_grid(a, ipr, ipr_m, vlp_m) ==
    IF ipr.status # "ok" THEN ipr
    ELSE nodal_curves(a, ipr, linspace(Zero, q_hi(a.q_max, ipr.q), a.npts), ipr_m, vlp_m)

\* The inflow curve of the normalised model name.
nodal_models(a, ipr_m, vlp_m) ==
    nodal_grid(a, ipr_dispatch(ipr_m, a.p_res, a.q_max, a.npts, a.ipr_kwargs),
               ipr_m, vlp_m)

nodal_analysis_detail(a) ==
    IF ~require_positive(a.p_res, FALSE) \/ ~require_positive(a.q_max, TRUE)
       \/ ~require_positive(a.well_depth, FALSE) \/ ~require_positive(a.rho, FALSE)
       \/ ~require_positive(a.mu, FALSE) \/ ~require_positive(a.d, FALSE)
       \/ a.npts < NptsMin
    THEN Raised
    ELSE nodal_models(a, norm_model(a.ipr_model), norm_model(a.vlp_model))

\* The pair (res.q_op, res.pwf_op) of a detailed result.
operating_point(res) ==
    IF res.status # "ok" THEN res ELSE Returned(res.q_op, res.pwf_op)

nodal_analysis(a) == operating_point(nodal_analysis_detail(a))

(***************************************************************************)
(* Calls of nodal_analysis and nodal_analysis_detail.  Pressures are in    *)
(* units of 1e-12 psi, as in _find_intersection above.                     *)
(***************************************************************************)
MaxNpts == 11

NoKwargs == [k \in {} |-> Zero]
Kw1(k1, v1) == [k \in {k1} |-> v1]
Kw2(k1, v1, k2, v2) == [k \in {k1, k2} |-> IF k = k1 THEN v1 ELSE v2]
Kw3(k1, v1, k2, v2, k3, v3) ==
    [k \in {k1, k2, k3} |-> IF k = k1 THEN v1 ELSE IF k = k2 THEN v2 ELSE v3]

\* What the gradient correlation returns along the grid: rising, falling,
\* constant, and not a number from the fourth entry on.
Rising == [k \in 1..MaxNpts |-> Rat(k, 2)]
Falling == [k \in 1..MaxNpts |-> Rat(MaxNpts + 1 - k, 3)]
Flat == [k \in 1..MaxNpts |-> IntF(4)]
Broken == [k \in 1..MaxNpts |-> IF k < 4 THEN IntF(k) ELSE NaN]
Ext(dp_dz) == [dp_dz |-> dp_dz, raises |-> {}, rho_l |-> IntF(2)]

NoExt == [dp_dz |-> <<>>, raises |-> {}, rho_l |-> One]

\* Spellings that callers pass.
S_IPR1 == <<" ", "V", "o", "g", "e", "l", " ">>
S_IPR2 == <<"F", "e", "t", "k", "o", "v", "i", "c", "h">>
S_IPR3 == <<"J", "O", "N", "E", "S">>
S_VLP1 == <<"D", "a", "r", "c", "y", "-", "W", "e", "i", "s", "b", "a", "c", "h">>
S_VLP2 == <<"B", "e", "g", "g", "s", "-", "B", "r", "i", "l", "l">>
S_VLP3 == <<"h", "a", "g", "e", "d", "o", "r", "n", " ", "b", "r", "o", "w", "n">>
S_bogus == <<"b", "o", "g", "u", "s">>

\* ipr_model and ipr_kwargs
IprChoices ==
    { <<S_IPR1, NoKwargs>>,
      <<S_IPR2, Kw1("J", Rat(1, 3))>>,
      <<S_IPR2, NoKwargs>>,
      <<S_fetkovich, Kw1("J", Zero)>>,
      <<S_IPR3, Kw2("C", IntF(3), "D", Zero)>>,
      <<S_jones, Kw1("C", IntF(3))>>,
      <<S_jones, Kw2("C", IntF(3), "D", IntF(-1))>>,
      <<S_standing, Kw2("p_b", IntF(3), "J", Rat(1, 3))>>,
      <<S_standing, Kw2("p_b", IntF(9), "J", One)>>,
      <<S_standing, Kw1("J", One)>>,
      <<S_bogus, NoKwargs>>,
      <<<<>>, NoKwargs>> }

\* vlp_model, vlp_kwargs and what the collaborators return
VlpChoices ==
    { <<S_darcy, NoKwargs, NoExt>>,
      <<S_darcy, Kw1("f", IntF(2)), NoExt>>,
      <<S_VLP1, Kw1("f", Zero), NoExt>>,
      <<S_darcy, Kw1("f", IntF(-8)), NoExt>>,
      <<S_darcy, Kw1("f", NaN), NoExt>>,
      <<S_bogus, NoKwargs, NoExt>>,
      <<S_beggs_brill, NoKwargs, Ext(Rising)>>,
      <<S_beggs_brill, NoKwargs, Ext(Falling)>>,
      <<S_beggs_brill, NoKwargs, Ext(Broken)>>,
      <<S_VLP2, Kw1("p_wh", One), Ext(Rising)>>,
      <<S_VLP2, Kw1("p_wh", NaN), Ext(Flat)>>,
      <<S_bb, Kw1("theta_deg", Zero), Ext(Flat)>>,
      <<S_VLP3, Kw1("q_gas_mscf_d", One), Ext(Rising)>>,
      <<S_VLP3, Kw1("q_gas_mscf_d", One), Ext(Broken)>>,
      <<S_hb, Kw2("q_gas_mscf_d", One, "q_gas_range_mscf_d",
                  [k \in 1..NptsMin |-> One]), Ext(Flat)>>,
      <<S_hagedorn_brown, Kw1("q_gas_range_mscf_d",
                  [k \in 1..NptsMin |-> IF k < 3 THEN Zero ELSE One]), Ext(Falling)>>,
      <<S_beggs_brill_blackoil,
        Kw3("t_f", IntF(180), "api", IntF(35), "gamma_g", Rat(7, 10)), Ext(Rising)>>,
      <<S_bb_blackoil, Kw2("t_f", IntF(180), "api", IntF(35)), Ext(Flat)>> }

Call(op, p_res, q_max, well_depth, rho, mu, d, npts, ic, vc) ==
    [op |-> op, p_res |-> p_res, q_max |-> q_max, well_depth |-> well_depth,
     rho |-> rho, mu |-> mu, d |-> d, npts |-> npts,
     ipr_model |-> ic[1], ipr_kwargs |-> ic[2],
     vlp_model |-> vc[1], vlp_kwargs |-> vc[2], ext |-> vc[3]]

NodalOps == {"nodal_analysis", "nodal_analysis_detail"}
PRes == {IntF(4), IntF(6)}
QMax == {Zero, One, IntF(2)}
Depths == {One}
Rhos == {One, Rat(11, 2), IntF(6)}
Diams == {One, IntF(2)}

\* A call that passes the validation, with one scalar argument replaced.
BaseCall(op) ==
    Call(op, IntF(6), One, One, One, One, One, NptsMin,
         <<S_vogel, NoKwargs>>, <<S_darcy, NoKwargs, NoExt>>)
BadScalars == {Zero, NaN, IntF(-1)}

InitNodal ==
    /\ \E op \in NodalOps :
          \/ \E p_res \in PRes, q_max \in QMax, L \in Depths, rho \in Rhos, d \in Diams,
                npts \in NptsMin..MaxNpts, ic \in IprChoices, vc \in VlpChoices :
                args = Call(op, p_res, q_max, L, rho, One, d, npts, ic, vc)
          \/ \E x \in BadScalars :
                args \in { [BaseCall(op) EXCEPT !.p_res = x],
                           [BaseCall(op) EXCEPT !.well_depth = x],
                           [BaseCall(op) EXCEPT !.rho = x],
                           [BaseCall(op) EXCEPT !.mu = x],
                           [BaseCall(op) EXCEPT !.d = x] }
          \/ \E x \in {NaN, IntF(-1)} : args = [BaseCall(op) EXCEPT !.q_max = x]
          \/ \E n \in {2, NptsMin - 1} : args = [BaseCall(op) EXCEPT !.npts = n]
    /\ ret = Pending

CallNodalAnalysisDetail ==
    /\ args.op = "nodal_analysis_detail"
    /\ ret = Pending
    /\ ret' = nodal_analysis_detail(args)
    /\ UNCHANGED args

CallNodalAnalysis ==
    /\ args.op = "nodal_analysis"
    /\ ret = Pending
    /\ ret' = nodal_analysis(args)
    /\ UNCHANGED args

NextNodal == CallNodalAnalysisDetail \/ CallNodalAnalysis

SpecNodal == InitNodal /\ [][NextNodal]_vars

(***************************************************************************)
(* Claims about _find_intersection.  The predicates below read the         *)
(* arguments of the call, index by index of the original grid.             *)
(***************************************************************************)
FIDone == args.op = "find_intersection" /\ ret # Pending
FILen == Len(args.q_grid)

\* A grid index whose rate, inflow and outflow values are all finite.
Fin(i) == isfinite(args.q_grid[i]) /\ isfinite(args.y1[i]) /\ isfinite(args.y2[i])
FinIdx == {i \in 1..FILen : Fin(i)}

\* inflow - outflow at a finite index.
Dif(i) == FSub(args.y1[i], args.y2[i])

\* |inflow - outflow| <= 1e-12 at a finite index.
Exact(i) == Fin(i) /\ FLeq(FAbs(Dif(i)), One)
ExactIdx == {i \in FinIdx : Exact(i)}

\* i < j are finite indices with no finite index between them.
Consecutive(i, j) == i \in FinIdx /\ j \in FinIdx /\ i < j /\ \A k \in FinIdx : ~(i < k /\ k < j)

\* inflow - outflow has strictly opposite signs at i and j.
Opposite(i, j) ==
    \/ Dif(i)[1] > 0 /\ Dif(j)[1] < 0
    \/ Dif(i)[1] < 0 /\ Dif(j)[1] > 0

\* The pairs of finite samples, next to each other once the non-finite ones
\* are dropped, where inflow - outflow changes sign.
Crossings == {c \in FinIdx \X FinIdx : Consecutive(c[1], c[2]) /\ Opposite(c[1], c[2])}
FirstCrossing == CHOOSE c \in Crossings : \A e \in Crossings : c[1] <= e[1]

\* The same, for pairs next to each other in the original grid.
GridCrossings == {c \in Crossings : c[2] = c[1] + 1}

\* (q, p) is the point of the chord from sample i to sample j where the chord
\* of inflow - outflow is zero:  (q - q_i)(d_i - d_j) = d_i (q_j - q_i), and the
\* same for the inflow pressure.
OnChord(q, p, i, j) ==
    LET dd == FSub(Dif(i), Dif(j))
    IN  /\ FMul(FSub(q, args.q_grid[i]), dd) = FMul(Dif(i), FSub(args.q_grid[j], args.q_grid[i]))
        /\ FMul(FSub(p, args.y1[i]), dd) = FMul(Dif(i), FSub(args.y1[j], args.y1[i]))

\* C1: if any finite sample has |inflow - outflow| <= 1e-12, the solver
\* returns the rate and the inflow pressure of the first such sample in grid
\* order, whether or not the difference changes sign earlier in the grid.
C1_ExactMatchFirst ==
    (FIDone /\ ExactIdx # {}) =>
        ret = Returned(args.q_grid[MinOf(ExactIdx)], args.y1[MinOf(ExactIdx)])

\* C1 witness: a sign change between two earlier samples, an exact match at a
\* later one, and the later one returned.
C1_Witness ==
    /\ FIDone
    /\ \E c \in Crossings : \E i \in ExactIdx :
          /\ c[2] < i
          /\ \A k \in ExactIdx : i <= k
          /\ ret = Returned(args.q_grid[i], args.y1[i])

\* C2 as stated: with no exact match and a sign change, the crossing is
\* interpolated between the first two points ADJACENT IN THE ORIGINAL GRID
\* whose differences have opposite signs.
C2_Original ==
    (FIDone /\ ExactIdx = {} /\ Crossings # {}) =>
        /\ GridCrossings # {}
        /\ LET c == CHOOSE c \in GridCrossings : \A e \in GridCrossings : c[1] <= e[1]
           IN  /\ ret.status = "ok"
               /\ OnChord(ret.q, ret.p, c[1], c[2])

\* C2 amended: with no exact match and a sign change, the crossing is
\* interpolated between the first two finite samples, next to each other once
\* the non-finite samples are dropped, whose differences have opposite signs:
\* rate q1 + t (q2 - q1) and inflow pressure y1 + t (y2 - y1) with
\* t = d1 / (d1 - d2), 0 < t < 1, and the rate strictly between q1 and q2.
C2_FirstFiniteCrossing ==
    (FIDone /\ ExactIdx = {} /\ Crossings # {}) =>
        LET i == FirstCrossing[1]
            j == FirstCrossing[2]
            t == FDiv(Dif(i), FSub(Dif(i), Dif(j)))
        IN  /\ ret.status = "ok"
            /\ FLess(Zero, t) /\ FLess(t, One)
            /\ OnChord(ret.q, ret.p, i, j)
            /\ FLess(args.q_grid[i], ret.q) /\ FLess(ret.q, args.q_grid[j])

\* C2 witness: two sign changes, no exact match, the first one interpolated.
C2_Witness ==
    /\ FIDone /\ ExactIdx = {} /\ Cardinality(Crossings) >= 2
    /\ ret.status = "ok"
    /\ FLess(args.q_grid[FirstCrossing[1]], ret.q)
    /\ FLess(ret.q, args.q_grid[FirstCrossing[2]])

C5_WitnessDropped ==
    /\ FIDone /\ FinIdx # {} /\ FinIdx # 1..FILen
    /\ ret.status = "ok" /\ isfinite(ret.q) /\ isfinite(ret.p)

\* The arguments are an inflow curve strictly decreasing and an outflow curve
\* strictly increasing in rate, all samples finite, with inflow >= outflow at
\* the lowest rate and inflow <= outflow at the highest.
C6_Pre ==
    /\ FIDone /\ FILen >= 2 /\ FinIdx = 1..FILen
    /\ \A i \in 1..(FILen - 1) :
          /\ FLess(args.y1[i + 1], args.y1[i])
          /\ FLess(args.y2[i], args.y2[i + 1])
    /\ FLeq(args.y2[1], args.y1[1])
    /\ FLeq(args.y1[FILen], args.y2[FILen])

\* C6 as stated: for such curves the returned rate lies in a grid cell
\* [q_i, q_i+1] in which inflow - outflow goes from >= 0 to <= 0.
C6_Original ==
    C6_Pre =>
        /\ ret.status = "ok"
        /\ \E i \in 1..(FILen - 1) :
              /\ Dif(i)[1] >= 0 /\ Dif(i + 1)[1] <= 0
              /\ FLeq(args.q_grid[i], ret.q) /\ FLeq(ret.q, args.q_grid[i + 1])

\* C6 amended: for such curves the solver returns the rate of the first
\* sample with |inflow - outflow| <= 1e-12 if there is one (it may lie before
\* the cell of the crossing), and otherwise the zero of the chord of
\* inflow - outflow strictly inside the one cell where the difference goes
\* from > 0 to < 0.
C6_MonotoneCrossing ==
    C6_Pre =>
        /\ ret.status = "ok"
        /\ IF ExactIdx # {}
           THEN ret.q = args.q_grid[MinOf(ExactIdx)]
           ELSE /\ Cardinality(GridCrossings) = 1
                /\ \E c \in GridCrossings :
                      /\ Dif(c[1])[1] > 0 /\ Dif(c[2])[1] < 0
                      /\ FLess(args.q_grid[c[1]], ret.q) /\ FLess(ret.q, args.q_grid[c[2]])
                      /\ OnChord(ret.q, ret.p, c[1], c[2])

\* C6 witness: such curves with no sample within the tolerance, and a rate
\* strictly inside the grid returned.
C6_Witness ==
    /\ C6_Pre /\ ExactIdx = {}
    /\ ret.status = "ok"
    /\ FLess(args.q_grid[1], ret.q) /\ FLess(ret.q, args.q_grid[FILen])

(***************************************************************************)
(* Claims about nodal_analysis and nodal_analysis_detail.  The curves of a *)
(* call are those that nodal_analysis_detail builds for its arguments.     *)
(***************************************************************************)
NodalOK == args.op \in NodalOps /\ ret.status = "ok"
Detail == nodal_analysis_detail(args)
QOp == IF args.op = "nodal_analysis" THEN ret.q ELSE ret.q_op
PwfOp == IF args.op = "nodal_analysis" THEN ret.p ELSE ret.pwf_op
Outflow == Detail.pwf_vlp_on_q
NonDecreasing(s) ==
    /\ \A k \in DOMAIN s : isfinite(s[k])
    /\ \A k \in 1..(Len(s) - 1) : FLeq(s[k], s[k + 1])
InRange(x, lo, hi) == isfinite(x) /\ FLeq(lo, x) /\ FLeq(x, hi)
NoInflow == norm_model(args.ipr_model) = S_vogel /\ args.q_max = Zero

\* C7 as stated: with an outflow curve that does not decrease with rate,
\* VLP(0) >= p_res gives q_op = 0 and pwf_op = p_res, and VLP(0) < p_res
\* gives q_op > 0 with 0 <= pwf_op <= p_res.
C7_Original ==
    NodalOK => \A vlp \in {Outflow} :
        NonDecreasing(vlp) =>
            /\ FLeq(args.p_res, vlp[1]) => (QOp = Zero /\ PwfOp = args.p_res)
            /\ FLess(vlp[1], args.p_res) =>
                  (FLess(Zero, QOp) /\ InRange(PwfOp, Zero, args.p_res))

\* C7: with an outflow curve that does not decrease with rate, a Vogel well
\* with q_max = 0 and VLP(0) >= 0 gets q_op = 0 and pwf_op = 0; every other
\* call gets q_op = 0 and pwf_op = p_res when VLP(0) >= p_res - 1e-12, and
\* q_op > 0 with 0 <= pwf_op <= p_res when VLP(0) < p_res - 1e-12.
C7_NoFlowBoundary ==
    NodalOK => \A vlp \in {Outflow} :
        NonDecreasing(vlp) =>
            IF NoInflow
            THEN FLeq(Zero, vlp[1]) => (QOp = Zero /\ PwfOp = Zero)
            ELSE /\ FLeq(FSub(args.p_res, atol), vlp[1]) =>
                        (QOp = Zero /\ PwfOp = args.p_res)
                 /\ FLess(vlp[1], FSub(args.p_res, atol)) =>
                        (FLess(Zero, QOp) /\ InRange(PwfOp, Zero, args.p_res))

\* nodal_analysis has returned the no-flow point of a well whose outflow
\* pressure at rate 0 exceeds the reservoir pressure.
C7_Witness ==
    /\ NodalOK /\ args.op = "nodal_analysis" /\ ~NoInflow
    /\ ret.q = Zero /\ ret.p = args.p_res
    /\ \E vlp \in {Outflow} :
          /\ NonDecreasing(vlp)
          /\ FLess(args.p_res, vlp[1])
          /\ FLess(vlp[1], vlp[Len(vlp)])

\* nodal_analysis has returned a flowing point of a well that can lift.
C7_WitnessFlow ==
    /\ NodalOK /\ args.op = "nodal_analysis" /\ ~NoInflow
    /\ FLess(Zero, ret.q) /\ FLess(ret.q, args.q_max)
    /\ \E vlp \in {Outflow} :
          NonDecreasing(vlp) /\ FLess(vlp[1], FSub(args.p_res, atol))

\* A Vogel well with q_max = 0 has got pwf_op = 0.
C7_WitnessNoInflow ==
    /\ NodalOK /\ NoInflow
    /\ QOp = Zero /\ PwfOp = Zero
    /\ \E vlp \in {Outflow} : NonDecreasing(vlp) /\ FLess(vlp[1], args.p_res)

\* C8: for every accepted input with q_max > 0 and every pair of models the
\* returned point has 0 <= q_op <= q_max and 0 <= pwf_op <= p_res, both
\* finite.
C8_OperatingPointBounds ==
    (NodalOK /\ FLess(Zero, args.q_max)) =>
        /\ InRange(QOp, Zero, args.q_max)
        /\ InRange(PwfOp, Zero, args.p_res)

\* A multiphase outflow model has given a point strictly inside the ranges.
C8_Witness ==
    /\ NodalOK /\ FLess(Zero, args.q_max)
    /\ norm_model(args.vlp_model) \in {S_beggs_brill, S_hagedorn_brown, S_beggs_brill_blackoil}
    /\ norm_model(args.ipr_model) \in {S_fetkovich, S_jones, S_standing}
    /\ FLess(Zero, QOp) /\ FLess(QOp, args.q_max)
    /\ FLess(Zero, PwfOp) /\ FLess(PwfOp, args.p_res)

(***************************************************************************)
(* multiphase.py: Beggs and Brill flow regime and liquid holdup.           *)
(* Velocities are in ft/s; the diameter d_ft is in units of 1 / 32.174 ft, *)
(* so that g * d_ft is d_ft.  The powers x ** e of the correlations are    *)
(* tabulated from the formulas of the code on the arguments that the calls *)
(* below produce: the boundaries to 4 significant digits, the powers of    *)
(* the holdup to 2, and a boundary above 1e8 as PosInf (beyond every       *)
(* Froude number of the calls).                                            *)
(***************************************************************************)
\* The lower clamp 1e-12 of the no-slip liquid fraction.  Integers are 32 bits
\* wide here: 1e-8 stands for it, and the tables hold under it the values of
\* the code at 1e-12 (the powers of the holdup, all above 1e-8 as
\* they are above 1e-12); no call has a liquid fraction in between.
c_l_min == Rat(1, 100000000)

\* (L1, L2, L3, L4) of beggs_brill_boundaries, by c_l.
BoundaryTable ==
    <<1, 1>> :> <<<<316, 1>>, <<2313, 2500000>>, <<1, 10>>, <<1, 2>>>> @@
    <<3, 4>> :> <<<<2897, 10>>, <<941, 500000>>, <<759, 5000>>, <<1737, 500>>>> @@
    <<2, 5>> :> <<<<1198, 5>>, <<4441, 500000>>, <<3781, 10000>>, <<240, 1>>>> @@
    <<1, 4>> :> <<<<2079, 10>>, <<1417, 50000>>, <<7481, 10000>>, <<5697, 1>>>> @@
    <<1, 50>> :> <<<<2424, 25>>, <<289, 20>>, <<1463, 50>>, PosInf>> @@
    <<1, 100>> :> <<<<1573, 20>>, <<7999, 100>>, <<4001, 50>>, PosInf>> @@
    <<1, 200>> :> <<<<6379, 100>>, <<4427, 10>>, <<2189, 10>>, PosInf>> @@
    <<1, 100000000>> :> <<<<7511, 100000>>, PosInf, PosInf, PosInf>>

\* c_l ** b for the exponents b of the segregated, intermittent and
\* distributed holdup, by c_l.
PowCl ==
    <<1, 1>> :> <<<<1, 1>>, <<1, 1>>, <<1, 1>>>> @@
    <<3, 4>> :> <<<<87, 100>>, <<43, 50>>, <<17, 20>>>> @@
    <<2, 5>> :> <<<<16, 25>>, <<61, 100>>, <<59, 100>>>> @@
    <<1, 4>> :> <<<<51, 100>>, <<12, 25>>, <<9, 20>>>> @@
    <<1, 50>> :> <<<<3, 20>>, <<3, 25>>, <<1, 10>>>> @@
    <<1, 100>> :> <<<<11, 100>>, <<17, 200>>, <<17, 250>>>> @@
    <<1, 200>> :> <<<<77, 1000>>, <<59, 1000>>, <<23, 500>>>> @@
    <<1, 100000000>> :> <<<<3, 2000000>>, <<19, 50000000>>, <<1, 10000000>>>>

\* fr ** c for the exponents c of the segregated, intermittent and
\* distributed holdup, by fr.
PowFr ==
    <<2313, 5000000>> :> <<<<51, 100>>, <<22, 25>>, <<63, 100>>>> @@
    <<2313, 2500000>> :> <<<<11, 20>>, <<89, 100>>, <<13, 20>>>> @@
    <<1, 1000>> :> <<<<11, 20>>, <<89, 100>>, <<33, 50>>>> @@
    <<4441, 1000000>> :> <<<<31, 50>>, <<91, 100>>, <<18, 25>>>> @@
    <<4441, 500000>> :> <<<<33, 50>>, <<23, 25>>, <<3, 4>>>> @@
    <<1, 100>> :> <<<<67, 100>>, <<23, 25>>, <<19, 25>>>> @@
    <<1417, 100000>> :> <<<<69, 100>>, <<93, 100>>, <<77, 100>>>> @@
    <<1417, 50000>> :> <<<<73, 100>>, <<47, 50>>, <<4, 5>>>> @@
    <<7511, 200000>> :> <<<<3, 4>>, <<47, 50>>, <<41, 50>>>> @@
    <<252313, 5000000>> :> <<<<77, 100>>, <<19, 20>>, <<83, 100>>>> @@
    <<7511, 100000>> :> <<<<4, 5>>, <<24, 25>>, <<17, 20>>>> @@
    <<1, 10>> :> <<<<41, 50>>, <<24, 25>>, <<87, 100>>>> @@
    <<7511, 50000>> :> <<<<17, 20>>, <<97, 100>>, <<89, 100>>>> @@
    <<193491, 1000000>> :> <<<<87, 100>>, <<97, 100>>, <<9, 10>>>> @@
    <<3, 10>> :> <<<<9, 10>>, <<49, 50>>, <<93, 100>>>> @@
    <<3781, 10000>> :> <<<<23, 25>>, <<49, 50>>, <<47, 50>>>> @@
    <<19411, 50000>> :> <<<<23, 25>>, <<49, 50>>, <<47, 50>>>> @@
    <<1, 2>> :> <<<<47, 50>>, <<99, 100>>, <<24, 25>>>> @@
    <<7481, 10000>> :> <<<<49, 50>>, <<99, 100>>, <<49, 50>>>> @@
    <<1, 1>> :> <<<<1, 1>>, <<1, 1>>, <<1, 1>>>> @@
    <<289, 40>> :> <<<<6, 5>>, <<1, 1>>, <<11, 10>>>> @@
    <<10, 1>> :> <<<<6, 5>>, <<1, 1>>, <<6, 5>>>> @@
    <<289, 20>> :> <<<<13, 10>>, <<1, 1>>, <<6, 5>>>> @@
    <<4371, 200>> :> <<<<13, 10>>, <<11, 10>>, <<6, 5>>>> @@
    <<1463, 50>> :> <<<<13, 10>>, <<11, 10>>, <<6, 5>>>> @@
    <<6379, 200>> :> <<<<7, 5>>, <<11, 10>>, <<6, 5>>>> @@
    <<1573, 40>> :> <<<<7, 5>>, <<11, 10>>, <<13, 10>>>> @@
    <<6311, 100>> :> <<<<7, 5>>, <<11, 10>>, <<13, 10>>>> @@
    <<6379, 100>> :> <<<<7, 5>>, <<11, 10>>, <<13, 10>>>> @@
    <<1573, 20>> :> <<<<3, 2>>, <<11, 10>>, <<13, 10>>>> @@
    <<1983, 25>> :> <<<<3, 2>>, <<11, 10>>, <<13, 10>>>> @@
    <<7999, 100>> :> <<<<3, 2>>, <<11, 10>>, <<13, 10>>>> @@
    <<16001, 200>> :> <<<<3, 2>>, <<11, 10>>, <<13, 10>>>> @@
    <<4001, 50>> :> <<<<3, 2>>, <<11, 10>>, <<13, 10>>>> @@
    <<2424, 25>> :> <<<<3, 2>>, <<11, 10>>, <<13, 10>>>> @@
    <<100, 1>> :> <<<<3, 2>>, <<11, 10>>, <<13, 10>>>> @@
    <<2086481, 20000>> :> <<<<3, 2>>, <<11, 10>>, <<13, 10>>>> @@
    <<2399781, 20000>> :> <<<<3, 2>>, <<11, 10>>, <<13, 10>>>> @@
    <<28269, 200>> :> <<<<3, 2>>, <<11, 10>>, <<7, 5>>>> @@
    <<633, 4>> :> <<<<8, 5>>, <<11, 10>>, <<7, 5>>>> @@
    <<4001, 25>> :> <<<<8, 5>>, <<11, 10>>, <<7, 5>>>> @@
    <<4848, 25>> :> <<<<8, 5>>, <<11, 10>>, <<7, 5>>>> @@
    <<2079, 10>> :> <<<<8, 5>>, <<11, 10>>, <<7, 5>>>> @@
    <<2189, 10>> :> <<<<8, 5>>, <<11, 10>>, <<7, 5>>>> @@
    <<1198, 5>> :> <<<<8, 5>>, <<11, 10>>, <<7, 5>>>> @@
    <<1199, 5>> :> <<<<8, 5>>, <<11, 10>>, <<7, 5>>>> @@
    <<240, 1>> :> <<<<8, 5>>, <<11, 10>>, <<7, 5>>>> @@
    <<316, 1>> :> <<<<8, 5>>, <<11, 10>>, <<7, 5>>>> @@
    <<1654, 5>> :> <<<<17, 10>>, <<11, 10>>, <<7, 5>>>> @@
    <<4427, 10>> :> <<<<17, 10>>, <<11, 10>>, <<7, 5>>>> @@
    <<480, 1>> :> <<<<17, 10>>, <<11, 10>>, <<3, 2>>>> @@
    <<632, 1>> :> <<<<9, 5>>, <<11, 10>>, <<3, 2>>>> @@
    <<4427, 5>> :> <<<<9, 5>>, <<11, 10>>, <<3, 2>>>> @@
    <<1000, 1>> :> <<<<9, 5>>, <<11, 10>>, <<3, 2>>>> @@
    <<59049, 20>> :> <<<<2, 1>>, <<11, 10>>, <<8, 5>>>> @@
    <<5697, 1>> :> <<<<21, 10>>, <<6, 5>>, <<17, 10>>>> @@
    <<11394, 1>> :> <<<<11, 5>>, <<6, 5>>, <<9, 5>>>>

beggs_brill_boundaries(c_l) ==
    IF ~(FLess(Zero, c_l) /\ FLeq(c_l, One)) THEN Raised
    ELSE [status |-> "ok", L1 |-> BoundaryTable[c_l][1], L2 |-> BoundaryTable[c_l][2],
          L3 |-> BoundaryTable[c_l][3], L4 |-> BoundaryTable[c_l][4]]

\* The clause of the intermittent regime with fr < L1 and fr < L4 strict.
IsIntermittent_Strict(c_l_eff, fr, L) ==
    \/ FLeq(Rat(1, 100), c_l_eff) /\ FLess(c_l_eff, Rat(2, 5))
         /\ FLess(L.L3, fr) /\ FLess(fr, L.L1)
    \/ FLeq(Rat(2, 5), c_l_eff) /\ FLess(L.L3, fr) /\ FLess(fr, L.L4)

IsSegregated(c_l_eff, fr, L) ==
    \/ FLess(c_l_eff, Rat(1, 100)) /\ FLess(fr, L.L1)
    \/ FLeq(Rat(1, 100), c_l_eff) /\ FLess(fr, L.L2)

IsTransition(c_l_eff, fr, L) == FLess(L.L2, fr) /\ FLess(fr, L.L3)

IsIntermittent(c_l_eff, fr, L) ==
    \/ FLeq(Rat(1, 100), c_l_eff) /\ FLess(c_l_eff, Rat(2, 5))
         /\ FLess(L.L3, fr) /\ FLeq(fr, L.L1)
    \/ FLeq(Rat(2, 5), c_l_eff) /\ FLess(L.L3, fr) /\ FLeq(fr, L.L4)

\* The if / elif chain of the classification.
classify(c_l_eff, fr, L) ==
    IF IsSegregated(c_l_eff, fr, L) THEN "segregated"
    ELSE IF IsTransition(c_l_eff, fr, L) THEN "transition"
    ELSE IF IsIntermittent(c_l_eff, fr, L) THEN "intermittent"
    ELSE "distributed"

flow_regime_of(c_l_eff, fr, L) ==
    IF L.status # "ok" THEN L
    ELSE [status |-> "ok", regime |-> classify(c_l_eff, fr, L), c_l |-> c_l_eff, fr |-> fr]

flow_regime_at(v_sl, v_m, d_ft) ==
    IF FLeq(v_m, Zero) THEN Raised
    ELSE flow_regime_of(FMax(FMin(FDiv(v_sl, v_m), One), c_l_min),
                        FDiv(FMul(v_m, v_m), d_ft),
                        beggs_brill_boundaries(FMax(FMin(FDiv(v_sl, v_m), One), c_l_min)))

beggs_brill_flow_regime(v_sl_ft_s, v_sg_ft_s, d_ft) ==
    IF FLeq(d_ft, Zero) THEN Raised
    ELSE IF FLess(v_sl_ft_s, Zero) \/ FLess(v_sg_ft_s, Zero) THEN Raised
    ELSE flow_regime_at(v_sl_ft_s, FAdd(v_sl_ft_s, v_sg_ft_s), d_ft)

\* Index of the coefficients (a, b, c) of _holdup_horizontal for a regime.
coeff_index(regime) ==
    IF regime = "segregated" THEN 1 ELSE IF regime = "intermittent" THEN 2 ELSE 3

\* The coefficients a: 0.98, 0.845, 1.065.
coeff_a == <<Rat(49, 50), Rat(169, 200), Rat(213, 200)>>

holdup_horizontal_at(c_l, fr, i) ==
    FMax(FDiv(FMul(coeff_a[i], PowCl[c_l][i]), PowFr[fr][i]), c_l)

\* max(a * c_l ** b / fr ** c, c_l), for fr > 0.
holdup_horizontal(c_l, fr, regime) == holdup_horizontal_at(c_l, fr, coeff_index(regime))

\* (1 - c_l) * log(max(d * c_l ** e * n_lv ** f * fr ** g, 1e-30)), where the
\* logarithms are given by ln_arg: one for the uphill segregated and one for
\* the uphill intermittent coefficients, and one for the downhill ones.
beta_inclination(c_l, theta_deg, regime, ln_arg) ==
    IF theta_deg = Zero THEN Zero
    ELSE IF FLess(Zero, theta_deg)
    THEN (IF regime = "segregated" THEN FMul(FSub(One, c_l), ln_arg.segregated)
          ELSE IF regime = "intermittent" THEN FMul(FSub(One, c_l), ln_arg.intermittent)
          ELSE Zero)
    ELSE FMul(FSub(One, c_l), ln_arg.downhill)

\* math.sin(math.radians(1.8 * theta_deg)) on 0, 50 and -50 degrees, and to
\* one digit on 80 degrees (sin 144), 90 degrees (sin 162), 180 degrees
\* (sin 324) and their negatives.
sin_1_8(theta_deg) ==
    IF theta_deg = IntF(50) THEN One
    ELSE IF theta_deg = IntF(-50) THEN FNeg(One)
    ELSE IF theta_deg = IntF(80) \/ theta_deg = IntF(-180) THEN Rat(3, 5)
    ELSE IF theta_deg = IntF(-80) \/ theta_deg = IntF(180) THEN Rat(-3, 5)
    ELSE IF theta_deg = IntF(90) THEN Rat(3, 10)
    ELSE IF theta_deg = IntF(-90) THEN Rat(-3, 10)
    ELSE Zero

\* 1 + beta * (s - (1/3) * s ** 3)
b_theta(beta, s) ==
    FAdd(One, FMul(beta, FSub(s, FMul(Rat(1, 3), FMul(s, FMul(s, s))))))

\* The clamp without its upper bound.
clamp_holdup_NoCap(el, c_l) == FMax(el, c_l)

\* min(max(el0 * b, c_l), 1)
clamp_holdup(el, c_l) == FMin(FMax(el, c_l), One)

\* The holdup of one regime at the inclination.
el_theta(c_l, fr, regime, theta_deg, ln_arg) ==
    clamp_holdup(FMul(holdup_horizontal(c_l, fr, regime),
                      b_theta(beta_inclination(c_l, theta_deg, regime, ln_arg),
                              sin_1_8(theta_deg))),
                 c_l)

HoldupResult(el, regime) == [status |-> "ok", holdup |-> el, regime |-> regime]

\* A = (L3 - fr) / (L3 - L2), clamped to [0, 1].
blend_A(fr, L) == FMin(FMax(FDiv(FSub(L.L3, fr), FSub(L.L3, L.L2)), Zero), One)

blend(A, el_seg, el_int, c_l) ==
    HoldupResult(clamp_holdup(FAdd(FMul(A, el_seg), FMul(FSub(One, A), el_int)), c_l),
                 "transition")

transition_holdup(c_l, fr, L, theta_deg, ln_arg) ==
    blend(blend_A(fr, L),
          el_theta(c_l, fr, "segregated", theta_deg, ln_arg),
          el_theta(c_l, fr, "intermittent", theta_deg, ln_arg),
          c_l)

holdup_of(fr_res, theta_deg, ln_arg) ==
    IF fr_res.status # "ok" THEN fr_res
    ELSE IF FLeq(fr_res.fr, Zero) THEN Raised
    ELSE IF fr_res.regime # "transition"
    THEN HoldupResult(el_theta(fr_res.c_l, fr_res.fr, fr_res.regime, theta_deg, ln_arg),
                      fr_res.regime)
    ELSE transition_holdup(fr_res.c_l, fr_res.fr, beggs_brill_boundaries(fr_res.c_l),
                           theta_deg, ln_arg)

\* The holdup without the check of the surface tension.
beggs_brill_liquid_holdup_NoSigma(v_sl_ft_s, v_sg_ft_s, d_ft, theta_deg, rho_l_lbm_ft3, sigma_dyn_cm, ln_arg) ==
    IF FLeq(rho_l_lbm_ft3, Zero) THEN Raised
    ELSE holdup_of(beggs_brill_flow_regime(v_sl_ft_s, v_sg_ft_s, d_ft), theta_deg, ln_arg)

beggs_brill_liquid_holdup(v_sl_ft_s, v_sg_ft_s, d_ft, theta_deg, rho_l_lbm_ft3, sigma_dyn_cm, ln_arg) ==
    IF FLeq(rho_l_lbm_ft3, Zero) THEN Raised
    ELSE IF FLeq(sigma_dyn_cm, Zero) THEN Raised
    ELSE holdup_of(beggs_brill_flow_regime(v_sl_ft_s, v_sg_ft_s, d_ft), theta_deg, ln_arg)

\* p_psia = None.
None == <<>>

\* _darcy_friction_factor_swamee_jain for re > 0: 64 / re below 2000, and
\* otherwise the value f_turb of the Swamee-Jain formula.
darcy_friction_factor(re, f_turb) ==
    IF FLess(re, IntF(2000)) THEN FDiv(IntF(64), re) ELSE f_turb

\* ek: 0 without a pressure, (rho_m * v_m * v_sg) / (g_c * p_psia) with one,
\* then min(max(ek, 0), 0.95).  Pressures are in units of g_c / 144 psia.
acceleration_term_Unclamped(rho_m, v_m, v_sg, p_psia) ==
    IF p_psia = None THEN Zero ELSE FDiv(FMul(rho_m, FMul(v_m, v_sg)), p_psia)

acceleration_term(rho_m, v_m, v_sg, p_psia) ==
    FMin(FMax(IF p_psia = None THEN Zero ELSE FDiv(FMul(rho_m, FMul(v_m, v_sg)), p_psia),
              Zero),
         Rat(19, 20))

BeggsBrillResult(dp_dz, holdup, regime, f_tp, rho_m, rho_ns, re_ns) ==
    [status |-> "ok", dp_dz_psi_per_ft |-> dp_dz, holdup |-> holdup, regime |-> regime,
     friction_factor_tp |-> f_tp, rho_m_lbm_ft3 |-> rho_m, rho_ns_lbm_ft3 |-> rho_ns,
     re_ns |-> re_ns]

\* (dp_dz_fric + dp_dz_ele) / (1 - ek); a division by zero raises.
bb_total(dp_dz_fric, dp_dz_ele, ek, hold, f_tp, rho_m, rho_ns, re_ns) ==
    IF ek = One THEN RaisedZeroDivisionError
    ELSE BeggsBrillResult(FDiv(FAdd(dp_dz_fric, dp_dz_ele), FSub(One, ek)),
                          hold.holdup, hold.regime, f_tp, rho_m, rho_ns, re_ns)

\* Densities in units of 144 lbm/ft3 and diameters in units of 1 / g_c ft:
\* dp_dz_ele = rho_m * sin(theta), dp_dz_fric = 2 * f_tp * v_m ** 2 * rho_ns / d.
bb_components(v_m, v_sg, d, theta_deg, p_psia, hold, f_tp, rho_m, rho_ns, re_ns) ==
    bb_total(FDiv(FMul(FMul(IntF(2), f_tp), FMul(FMul(v_m, v_m), rho_ns)), d),
             FMul(rho_m, sin_deg(theta_deg)),
             acceleration_term(rho_m, v_m, v_sg, p_psia),
             hold, f_tp, rho_m, rho_ns, re_ns)

\* The two-phase friction factor f_ns * exp(S); corr.exp_S is the value of
\* exp(S) for y = c_l / holdup ** 2 (exp_S_of).
bb_friction(v_m, v_sg, d, theta_deg, p_psia, hold, rho_m, rho_ns, re_ns, corr) ==
    IF FLeq(re_ns, Zero) THEN Raised
    ELSE bb_components(v_m, v_sg, d, theta_deg, p_psia, hold,
                       FMul(darcy_friction_factor(re_ns, corr.f_turb), corr.exp_S),
                       rho_m, rho_ns, re_ns)

\* Viscosities in units that make re_ns = rho_ns * v_m * d / mu_ns.
bb_no_slip(v_m, v_sg, d, theta_deg, p_psia, hold, rho_m, rho_ns, mu_ns, corr) ==
    bb_friction(v_m, v_sg, d, theta_deg, p_psia, hold, rho_m, rho_ns,
                FDiv(FMul(rho_ns, FMul(v_m, d)), mu_ns), corr)

\* A positive number to three decimals; a fraction of more than seven digits
\* is first cut to its leading digits.
round3_cut(n, d) == Rat((n * 1000 + d \div 2) \div d, 1000)
round3(x) ==
    IF x[2] > 2000000 THEN round3_cut(x[1] \div 1000, x[2] \div 1000) ELSE round3_cut(x[1], x[2])

\* y = c_l / holdup ** 2 for a positive holdup, to three decimals, of a
\* holdup to three decimals.
two_phase_y(c_l, holdup) ==
    IF c_l = Zero THEN Zero
    ELSE IF round3(holdup) = Zero THEN PosInf
    ELSE round3(FDiv(c_l, FMul(round3(holdup), round3(holdup))))

\* exp(S) of the general formula for every y but those of 1 < y < 1.2.
exp_S_of_General(y, exp_S) ==
    IF isfinite(y) /\ FLess(One, y) /\ FLess(y, Rat(6, 5))
    THEN FSub(FMul(Rat(11, 5), y), Rat(6, 5))
    ELSE exp_S

\* exp(S): exp(log(2.2 * y - 1.2)) for 1 < y < 1.2, and otherwise
\* exp(ln_y / denom), which is 1 for y = 1 (ln_y = 0) and is given by exp_S
\* for the other y.
exp_S_of(y, exp_S) ==
    IF y = One THEN One
    ELSE IF ~isfinite(y) THEN exp_S
    ELSE IF FLess(One, y) /\ FLess(y, Rat(6, 5)) THEN FSub(FMul(Rat(11, 5), y), Rat(6, 5))
    ELSE exp_S

bb_mixture(c_l, v_m, v_sg, d, theta_deg, rho_l, rho_g, mu_l, mu_g, p_psia, hold, corr) ==
    IF hold.status # "ok" THEN hold
    ELSE bb_no_slip(v_m, v_sg, d, theta_deg, p_psia, hold,
                    FAdd(FMul(rho_l, hold.holdup), FMul(rho_g, FSub(One, hold.holdup))),
                    FAdd(FMul(rho_l, c_l), FMul(rho_g, FSub(One, c_l))),
                    FAdd(FMul(mu_l, c_l), FMul(mu_g, FSub(One, c_l))),
                    [corr EXCEPT !.exp_S = exp_S_of(two_phase_y(c_l, hold.holdup), corr.exp_S)])

\* corr holds the values of the transcendental functions of the call: ln_arg
\* (see beta_inclination), f_turb and exp_S.
beggs_brill_pressure_gradient(v_sl_ft_s, v_sg_ft_s, d_in, theta_deg, rho_l_lbm_ft3, rho_g_lbm_ft3, mu_l_cp, mu_g_cp, sigma_dyn_cm, p_psia, corr) ==
    IF FLeq(d_in, Zero) THEN Raised
    ELSE IF FLeq(rho_l_lbm_ft3, Zero) \/ FLeq(rho_g_lbm_ft3, Zero) THEN Raised
    ELSE IF FLeq(mu_l_cp, Zero) \/ FLeq(mu_g_cp, Zero) THEN Raised
    ELSE IF FLess(v_sl_ft_s, Zero) \/ FLess(v_sg_ft_s, Zero) THEN Raised
    ELSE IF p_psia # None /\ FLeq(p_psia, Zero) THEN Raised
    ELSE IF FLeq(FAdd(v_sl_ft_s, v_sg_ft_s), Zero) THEN Raised
    ELSE bb_mixture(FDiv(v_sl_ft_s, FAdd(v_sl_ft_s, v_sg_ft_s)),
                    FAdd(v_sl_ft_s, v_sg_ft_s), v_sg_ft_s, d_in, theta_deg,
                    rho_l_lbm_ft3, rho_g_lbm_ft3, mu_l_cp, mu_g_cp, p_psia,
                    beggs_brill_liquid_holdup(v_sl_ft_s, v_sg_ft_s, d_in, theta_deg,
                                              rho_l_lbm_ft3, sigma_dyn_cm, corr.ln_arg),
                    corr)

(***************************************************************************)
(* The calls of the Beggs and Brill functions.                             *)
(***************************************************************************)
\* (v_sl, v_sg): the liquid fractions of the tables, 1/4 at two mixture
\* velocities.
Velocities ==
    { <<One, Zero>>, <<Rat(2, 5), Rat(3, 5)>>, <<Rat(1, 4), Rat(3, 4)>>,
      <<Rat(1, 2), Rat(3, 2)>>, <<Rat(1, 50), Rat(49, 50)>>,
      <<Rat(1, 100), Rat(99, 100)>>, <<Rat(1, 200), Rat(199, 200)>>,
      <<Zero, One>> }

c_l_of(v) == FMax(FMin(FDiv(v[1], FAdd(v[1], v[2])), One), c_l_min)

FiniteBoundaries(c_l) == {L \in {BoundaryTable[c_l][i] : i \in 1..4} : isfinite(L)}

Adjacent(S, x, y) == FLess(x, y) /\ ~\E z \in S : FLess(x, z) /\ FLess(z, y)

\* The Froude numbers of a liquid fraction: its finite boundaries, the
\* midpoints between neighbours, half the least and twice the greatest.
FroudeNumbers(c_l) ==
    LET S == FiniteBoundaries(c_l)
    IN  S \cup {FMul(Rat(1, 2), FAdd(p[1], p[2])) : p \in {q \in S \X S : Adjacent(S, q[1], q[2])}}
          \cup {FMul(Rat(1, 2), x) : x \in {z \in S : \A w \in S : FLeq(z, w)}}
          \cup {FMul(IntF(2), x) : x \in {z \in S : \A w \in S : FLeq(w, z)}}

\* The diameters that give the velocities these Froude numbers.
Diameters(v) ==
    {FDiv(FMul(FAdd(v[1], v[2]), FAdd(v[1], v[2])), fr) : fr \in FroudeNumbers(c_l_of(v))}

\* (v_sl, fr) of the pressure gradient calls, at round Froude numbers: the
\* mixture velocity is 1 and the diameter 1 / fr.
GradientPoints ==
    {
      <<Rat(1, 1), Rat(1, 1000)>>, <<Rat(1, 1), Rat(1, 100)>>, <<Rat(1, 1), Rat(1, 10)>>,
      <<Rat(1, 1), Rat(1, 2)>>, <<Rat(1, 1), Rat(1, 1)>>, <<Rat(1, 1), Rat(10, 1)>>,
      <<Rat(1, 1), Rat(100, 1)>>, <<Rat(2, 5), Rat(1, 1000)>>, <<Rat(2, 5), Rat(1, 2)>>,
      <<Rat(2, 5), Rat(1, 1)>>, <<Rat(1, 4), Rat(1, 1000)>>, <<Rat(1, 4), Rat(1, 100)>>,
      <<Rat(1, 4), Rat(1, 1)>>, <<Rat(1, 50), Rat(1, 1000)>>, <<Rat(1, 50), Rat(1, 100)>>,
      <<Rat(1, 50), Rat(1, 10)>>, <<Rat(1, 50), Rat(1, 2)>>, <<Rat(1, 50), Rat(1, 1)>>,
      <<Rat(1, 100), Rat(1, 1000)>>, <<Rat(1, 100), Rat(1, 100)>>, <<Rat(1, 100), Rat(1, 10)>>,
      <<Rat(1, 200), Rat(1, 1000)>>, <<Rat(0, 1), Rat(1, 1000)>>, <<Rat(0, 1), Rat(1, 100)>> }

GradientVelocity(pt) == <<pt[1], FSub(One, pt[1])>>
GradientDiameter(pt) == FDiv(One, pt[2])

Horizontal == [segregated |-> Zero, intermittent |-> Zero, downhill |-> Zero]

LnArgs ==
    { [segregated |-> IntF(-2), intermittent |-> Rat(1, 2), downhill |-> IntF(1)],
      [segregated |-> IntF(1), intermittent |-> IntF(-1), downhill |-> Rat(-1, 2)] }

Thetas == {IntF(50), IntF(-50)}

RegimeCall(v, d_ft) ==
    [op |-> "beggs_brill_flow_regime", v_sl |-> v[1], v_sg |-> v[2], d_ft |-> d_ft]

HoldupCall(v, d_ft, theta_deg, rho_l, sigma, ln_arg) ==
    [op |-> "beggs_brill_liquid_holdup", v_sl |-> v[1], v_sg |-> v[2], d_ft |-> d_ft,
     theta_deg |-> theta_deg, rho_l |-> rho_l, sigma |-> sigma, ln_arg |-> ln_arg]

BadVelocities == {<<Zero, Zero>>, <<IntF(-1), IntF(2)>>, <<One, IntF(-1)>>}

\* The values of the transcendental functions of a pressure gradient call.
Corr(ln_arg, exp_S) == [ln_arg |-> ln_arg, f_turb |-> Rat(1, 50), exp_S |-> exp_S]

ExpS == {One, IntF(2)}

\* None, a pressure that leaves ek below 0.95 and one that does not.
Pressures == {None, IntF(4), Rat(1, 100)}

GradientCall(v, d_in, theta_deg, rho, mu, sigma, p_psia, corr) ==
    [op |-> "beggs_brill_pressure_gradient", v_sl |-> v[1], v_sg |-> v[2], d_in |-> d_in,
     theta_deg |-> theta_deg, rho_l |-> rho[1], rho_g |-> rho[2], mu_l |-> mu[1],
     mu_g |-> mu[2], sigma |-> sigma, p_psia |-> p_psia, corr |-> corr]

\* (rho_l, rho_g) and (mu_l, mu_g) of the valid calls.
Rho0 == <<IntF(2), One>>
Mu0 == <<One, Rat(1, 2)>>

NonPositive == {Zero, IntF(-1)}

\* A valid pressure gradient call, for the calls with one invalid argument.
BaseGradientCall(v, d_in, rho, mu, sigma, p_psia) ==
    GradientCall(v, d_in, Zero, rho, mu, sigma, p_psia, Corr(Horizontal, One))

InvalidGradientCalls ==
    {BaseGradientCall(v, One, Rho0, Mu0, One, None) : v \in BadVelocities}
      \cup {BaseGradientCall(<<One, One>>, x, Rho0, Mu0, One, None) : x \in NonPositive}
      \cup {BaseGradientCall(<<One, One>>, IntF(2), <<x, One>>, Mu0, One, None) : x \in NonPositive}
      \cup {BaseGradientCall(<<One, One>>, IntF(2), <<One, x>>, Mu0, One, None) : x \in NonPositive}
      \cup {BaseGradientCall(<<One, One>>, IntF(2), Rho0, <<x, One>>, One, None) : x \in NonPositive}
      \cup {BaseGradientCall(<<One, One>>, IntF(2), Rho0, <<One, x>>, One, None) : x \in NonPositive}
      \cup {BaseGradientCall(<<One, Zero>>, IntF(2), Rho0, Mu0, x, None) : x \in NonPositive}
      \cup {BaseGradientCall(<<One, One>>, IntF(2), Rho0, Mu0, One, x) : x \in NonPositive}
      \cup {BaseGradientCall(<<Zero, Zero>>, IntF(2), Rho0, Mu0, One, IntF(-1))}

InitBB ==
    /\ ret = Pending
    /\ \/ \E v \in Velocities : \E d_ft \in Diameters(v) : args = RegimeCall(v, d_ft)
       \/ \E v \in BadVelocities : args = RegimeCall(v, One)
       \/ \E d_ft \in {Zero, IntF(-1)} : args = RegimeCall(<<One, One>>, d_ft)
       \/ \E v \in Velocities : \E d_ft \in Diameters(v) :
              args = HoldupCall(v, d_ft, Zero, One, One, Horizontal)
       \/ \E v \in Velocities \ {<<Zero, One>>} : \E d_ft \in Diameters(v) :
          \E theta_deg \in Thetas : \E ln_arg \in LnArgs :
              args = HoldupCall(v, d_ft, theta_deg, One, One, ln_arg)
       \/ \E v \in BadVelocities : args = HoldupCall(v, One, Zero, One, One, Horizontal)
       \/ \E x \in {Zero, IntF(-1)} :
              \/ args = HoldupCall(<<One, One>>, x, Zero, One, One, Horizontal)
              \/ args = HoldupCall(<<One, One>>, IntF(2), Zero, x, One, Horizontal)
              \/ args = HoldupCall(<<One, Zero>>, IntF(2), Zero, One, x, Horizontal)
       \/ \E pt \in GradientPoints : \E p_psia \in Pressures : \E exp_S \in ExpS :
              args = GradientCall(GradientVelocity(pt), GradientDiameter(pt), Zero, Rho0, Mu0,
                                  One, p_psia, Corr(Horizontal, exp_S))
       \/ \E pt \in {x \in GradientPoints : x[1] # Zero} : \E theta_deg \in Thetas :
          \E ln_arg \in LnArgs : \E p_psia \in Pressures : \E exp_S \in ExpS :
              args = GradientCall(GradientVelocity(pt), GradientDiameter(pt), theta_deg, Rho0,
                                  Mu0, One, p_psia, Corr(ln_arg, exp_S))
       \/ \E call \in InvalidGradientCalls : args = call

CallFlowRegime ==
    /\ ret = Pending
    /\ args.op = "beggs_brill_flow_regime"
    /\ ret' = beggs_brill_flow_regime(args.v_sl, args.v_sg, args.d_ft)
    /\ UNCHANGED args

CallLiquidHoldup ==
    /\ ret = Pending
    /\ args.op = "beggs_brill_liquid_holdup"
    /\ ret' = beggs_brill_liquid_holdup(args.v_sl, args.v_sg, args.d_ft, args.theta_deg,
                                        args.rho_l, args.sigma, args.ln_arg)
    /\ UNCHANGED args

CallPressureGradient ==
    /\ ret = Pending
    /\ args.op = "beggs_brill_pressure_gradient"
    /\ ret' = beggs_brill_pressure_gradient(args.v_sl, args.v_sg, args.d_in, args.theta_deg,
                                            args.rho_l, args.rho_g, args.mu_l, args.mu_g,
                                            args.sigma, args.p_psia, args.corr)
    /\ UNCHANGED args

NextBB == CallFlowRegime \/ CallLiquidHoldup \/ CallPressureGradient

SpecBB == InitBB /\ [][NextBB]_vars

(***************************************************************************)
(* Properties of the Beggs and Brill functions.                            *)
(***************************************************************************)
RegimeDone == args.op = "beggs_brill_flow_regime" /\ ret # Pending
HoldupDone == args.op = "beggs_brill_liquid_holdup" /\ ret # Pending

ValidFlow ==
    /\ FLeq(Zero, args.v_sl) /\ FLeq(Zero, args.v_sg)
    /\ FLess(Zero, FAdd(args.v_sl, args.v_sg))
    /\ FLess(Zero, args.d_ft)

\* The clamped no-slip liquid fraction and the mixture Froude number of the call.
LiquidFraction == c_l_of(<<args.v_sl, args.v_sg>>)
Froude ==
    FDiv(FMul(FAdd(args.v_sl, args.v_sg), FAdd(args.v_sl, args.v_sg)), args.d_ft)

\* The regime that the clauses give in their order, on (c_l, Fr) and the
\* boundaries (L1, L2, L3, L4) of c_l.
FirstClause(c, fr, L) ==
    IF (FLess(c, Rat(1, 100)) /\ FLess(fr, L[1])) \/ (~FLess(c, Rat(1, 100)) /\ FLess(fr, L[2]))
    THEN "segregated"
    ELSE IF FLess(L[2], fr) /\ FLess(fr, L[3])
    THEN "transition"
    ELSE IF \/ ~FLess(c, Rat(1, 100)) /\ FLess(c, Rat(2, 5)) /\ FLess(L[3], fr) /\ ~FLess(L[1], fr)
            \/ ~FLess(c, Rat(2, 5)) /\ FLess(L[3], fr) /\ ~FLess(L[4], fr)
    THEN "intermittent"
    ELSE "distributed"

\* Every call with valid velocities and diameter gives the same regime as
\* this one whenever it has the same liquid fraction and Froude number.
SameRegimeAs(c, fr, regime) ==
    \A v \in Velocities : \A d_ft \in Diameters(v) :
        \A other \in {beggs_brill_flow_regime(v[1], v[2], d_ft)} :
            (other.c_l = c /\ other.fr = fr) => other.regime = regime

\* C9: beggs_brill_flow_regime classifies every valid input into one of the
\* four regimes, the one of the first matching clause in the order
\* segregated, transition, intermittent, distributed, evaluated on the
\* clamped liquid fraction and the Froude number alone.
C9_FirstMatchingClause ==
    (RegimeDone /\ ValidFlow) =>
        /\ ret.status = "ok"
        /\ ret.c_l = LiquidFraction
        /\ ret.fr = Froude
        /\ ret.regime \in {"segregated", "transition", "intermittent", "distributed"}
        /\ ret.regime = FirstClause(ret.c_l, ret.fr, BoundaryTable[ret.c_l])
        /\ SameRegimeAs(ret.c_l, ret.fr, ret.regime)

\* A tie on the closing boundary of the intermittent clause (Fr = L1 with
\* 0.01 <= c_l < 0.4), classified, at the larger of the two mixture velocities
\* with this liquid fraction.
C9_Witness ==
    /\ RegimeDone /\ ValidFlow
    /\ ret.status = "ok"
    /\ ret.c_l = Rat(1, 4)
    /\ ret.fr = BoundaryTable[ret.c_l][1]
    /\ ret.regime = "intermittent"
    /\ FAdd(args.v_sl, args.v_sg) = IntF(2)

\* The holdup of one regime alone on the inputs of the call.
RegimeOnlyHoldup(regime) ==
    el_theta(LiquidFraction, Froude, regime, args.theta_deg, args.ln_arg)

\* C10: for a liquid fraction with L2 < L3, the holdup returned at Fr = L2 is
\* the segregated-only holdup and the holdup returned at Fr = L3 is the
\* intermittent-only holdup.
C10_Continuity ==
    (HoldupDone /\ ret.status = "ok") =>
        \A L \in {BoundaryTable[LiquidFraction]} :
            FLess(L[2], L[3]) =>
                /\ Froude = L[2] => ret.holdup = RegimeOnlyHoldup("segregated")
                /\ Froude = L[3] => ret.holdup = RegimeOnlyHoldup("intermittent")

GradientDone == args.op = "beggs_brill_pressure_gradient" /\ ret # Pending

\* v_sl / (v_sl + v_sg) of the call.
NoSlipFraction == FDiv(args.v_sl, FAdd(args.v_sl, args.v_sg))

\* C11: the holdup returned by beggs_brill_liquid_holdup and by
\* beggs_brill_pressure_gradient lies between the no-slip liquid fraction and
\* 1, in every regime and at every inclination.
C11_HoldupBounds ==
    ((HoldupDone \/ GradientDone) /\ ret.status = "ok") =>
        /\ ret.regime \in {"segregated", "transition", "intermittent", "distributed"}
        /\ FLeq(NoSlipFraction, ret.holdup)
        /\ FLeq(ret.holdup, One)

\* An inclined call in the transition zone, where the segregated holdup of
\* the blend has been cut to the liquid fraction or to 1.
C11_Witness ==
    /\ HoldupDone /\ ret.status = "ok"
    /\ ret.regime = "transition"
    /\ args.theta_deg # Zero
    /\ RegimeOnlyHoldup("segregated") \in {One, NoSlipFraction}
    /\ FLess(NoSlipFraction, One)

\* The same in a pressure gradient call, for an uphill pipe.
C11_WitnessGradient ==
    /\ GradientDone /\ ret.status = "ok"
    /\ FLess(Zero, args.theta_deg)
    /\ ret.holdup = NoSlipFraction
    /\ FLess(NoSlipFraction, One)

\* The preconditions of beggs_brill_flow_regime and those of
\* beggs_brill_pressure_gradient.
ValidRegimeInputs ==
    /\ FLess(Zero, args.d_ft)
    /\ FLeq(Zero, args.v_sl) /\ FLeq(Zero, args.v_sg)
    /\ FAdd(args.v_sl, args.v_sg) # Zero

ValidGradientInputs ==
    /\ FLess(Zero, args.d_in)
    /\ FLess(Zero, args.rho_l) /\ FLess(Zero, args.rho_g)
    /\ FLess(Zero, args.mu_l) /\ FLess(Zero, args.mu_g)
    /\ FLeq(Zero, args.v_sl) /\ FLeq(Zero, args.v_sg)
    /\ FAdd(args.v_sl, args.v_sg) # Zero
    /\ FLess(Zero, args.sigma)
    /\ (args.p_psia = None \/ FLess(Zero, args.p_psia))

\* C14: beggs_brill_flow_regime and beggs_brill_pressure_gradient raise, and
\* return nothing, when a precondition fails (diameter, densities,
\* viscosities, velocities, mixture velocity, surface tension, supplied
\* pressure), and raise nothing when all of them hold.
C14_Validation ==
    /\ RegimeDone => (ret.status = "ok" <=> ValidRegimeInputs)
    /\ RegimeDone => (ret.status # "ok" => ret = Raised)
    /\ GradientDone => (ret.status = "ok" <=> ValidGradientInputs)
    /\ GradientDone => (ret.status # "ok" => ret = Raised)

\* A pressure gradient call whose only invalid argument is the surface
\* tension, which the holdup function checks, has raised.
C14_Witness ==
    /\ GradientDone
    /\ FLeq(args.sigma, Zero)
    /\ FLess(Zero, args.d_in) /\ FLess(Zero, args.rho_l) /\ FLess(Zero, args.mu_l)
    /\ args.p_psia = None
    /\ ret = Raised

\* friction + hydrostatic of the returned result.
FrictionPlusHydrostatic ==
    FAdd(FDiv(FMul(FMul(IntF(2), ret.friction_factor_tp),
                   FMul(FMul(FAdd(args.v_sl, args.v_sg), FAdd(args.v_sl, args.v_sg)),
                        ret.rho_ns_lbm_ft3)),
              args.d_in),
         FMul(ret.rho_m_lbm_ft3, sin_deg(args.theta_deg)))

\* (rho_m * v_m * v_sg) / (g_c * p_psia) of the returned result.
RawEk == FDiv(FMul(ret.rho_m_lbm_ft3, FMul(FAdd(args.v_sl, args.v_sg), args.v_sg)), args.p_psia)

\* C20: without a pressure the gradient is friction + hydrostatic; with one
\* it is (friction + hydrostatic) / (1 - E_k) with E_k the raw term cut into
\* [0, 0.95], so the gradient is finite.
C20_AccelerationTerm ==
    (GradientDone /\ ret.status = "ok") =>
        /\ isfinite(ret.dp_dz_psi_per_ft)
        /\ args.p_psia = None => ret.dp_dz_psi_per_ft = FrictionPlusHydrostatic
        /\ args.p_psia # None =>
               \E ek \in {Zero, RawEk, Rat(19, 20)} :
                   /\ FLeq(Zero, ek) /\ FLeq(ek, Rat(19, 20))
                   /\ (FLeq(Zero, RawEk) /\ FLeq(RawEk, Rat(19, 20))) => ek = RawEk
                   /\ FLess(RawEk, Zero) => ek = Zero
                   /\ FMul(ret.dp_dz_psi_per_ft, FSub(One, ek)) = FrictionPlusHydrostatic

\* A call with a pressure so low that the raw term exceeds 0.95.
C20_Witness ==
    /\ GradientDone /\ ret.status = "ok"
    /\ args.p_psia # None
    /\ FLess(One, RawEk)
    /\ FrictionPlusHydrostatic # Zero

(***************************************************************************)
(* multiphase_hb: Hagedorn-Brown holdup and pressure gradient              *)
(*                                                                         *)
(* Units as for Beggs-Brill: densities in units of 144 lbm/ft3, so that    *)
(* the hydrostatic gradient is rho * sin(theta); diameters in units of    *)
(* 1/g ft, so that the friction gradient is f * rho_m * v_m^2 / (2 * d);   *)
(* viscosities in the unit that makes re_m = rho_m * v_m * d / mu.         *)
(***************************************************************************)
\* The clamps of the holdup: min(max(h, 1e-6), 0.999999).
h_min == Rat(1, 1000000)
h_max == Rat(999999, 1000000)

\* The floor max(mu_mix, 1e-12) of the mixture viscosity, in the model's
\* unit of viscosity.
mu_floor == Rat(1, 1000000000)

\* math.sqrt(max(v_sg / (v_m + 1e-12), 0.0)), by the gas fraction v_sg / v_m,
\* to three significant digits.
SqrtGasFraction ==
    (Zero :> Zero) @@ (One :> One) @@ (Rat(1, 4) :> Rat(1, 2)) @@
    (Rat(9, 25) :> Rat(3, 5)) @@ (Rat(1, 2) :> Rat(707, 1000)) @@
    (Rat(3, 4) :> Rat(433, 500)) @@ (Rat(9999999, 10000000) :> One)

\* The holdup cut from above only.
clamp_hb_NoFloor(h) == FMin(h, h_max)

\* min(max(h, 1e-6), 0.999999)
clamp_hb(h) == FMin(FMax(h, h_min), h_max)

\* The holdup of a flowing mixture without h = max(h, lam_l).
hb_holdup_flowing_NoMax(v_sl, v_sg, k) ==
    LET v_m == FAdd(v_sl, v_sg)
    IN  clamp_hb(FMul(FDiv(v_sl, v_m),
                      FAdd(One, FMul(k, SqrtGasFraction[FDiv(v_sg, v_m)]))))

\* The holdup of a flowing mixture (v_m > 0).
hb_holdup_flowing(v_sl, v_sg, k) ==
    LET v_m == FAdd(v_sl, v_sg)
        lam_l == FDiv(v_sl, v_m)
        h == FMul(lam_l, FAdd(One, FMul(k, SqrtGasFraction[FDiv(v_sg, v_m)])))
    IN  clamp_hb(FMax(h, lam_l))

HBHoldup(h) == [status |-> "ok", holdup |-> h]

hagedorn_brown_holdup(v_sl_ft_s, v_sg_ft_s, k) ==
    IF FLess(v_sl_ft_s, Zero) \/ FLess(v_sg_ft_s, Zero) THEN Raised
    ELSE IF FLeq(FAdd(v_sl_ft_s, v_sg_ft_s), Zero) THEN HBHoldup(One)
    ELSE HBHoldup(hb_holdup_flowing(v_sl_ft_s, v_sg_ft_s, k))

\* _darcy_friction_factor_swamee_jain of multiphase_hb: 64 / re below 2000,
\* and otherwise the value f_turb of the Swamee-Jain formula.
hb_friction_factor(re, f_turb) ==
    IF FLeq(re, Zero) THEN Raised
    ELSE IF FLess(re, IntF(2000)) THEN [status |-> "ok", f |-> FDiv(IntF(64), re)]
    ELSE [status |-> "ok", f |-> f_turb]

HagedornBrownResult(dp_dz, holdup, rho_m, re_m, f_darcy) ==
    [status |-> "ok", dp_dz_psi_per_ft |-> dp_dz, holdup |-> holdup,
     rho_m_lbm_ft3 |-> rho_m, re_m |-> re_m, f_darcy |-> f_darcy]

\* The no-flow branch: the static column of liquid.
hb_no_flow(theta_deg, rho_l_lbm_ft3) ==
    HagedornBrownResult(FMul(rho_l_lbm_ft3, sin_deg(theta_deg)), One, rho_l_lbm_ft3, Zero, Zero)

\* Friction alone, at every inclination.
hb_total_NoElevation(v_m, d_in, theta_deg, h, rho_m, re_m, fres) ==
    IF fres.status # "ok" THEN fres
    ELSE HagedornBrownResult(
             FDiv(FMul(fres.f, FMul(rho_m, FMul(v_m, v_m))), FMul(IntF(2), d_in)),
             h, rho_m, re_m, fres.f)

\* Friction and elevation of the mixture.
hb_total(v_m, d_in, theta_deg, h, rho_m, re_m, fres) ==
    IF fres.status # "ok" THEN fres
    ELSE HagedornBrownResult(
             FAdd(FDiv(FMul(fres.f, FMul(rho_m, FMul(v_m, v_m))), FMul(IntF(2), d_in)),
                  FMul(rho_m, sin_deg(theta_deg))),
             h, rho_m, re_m, fres.f)

hb_mixture(v_m, d_in, theta_deg, h, rho_m, mu_mix, f_turb) ==
    hb_total(v_m, d_in, theta_deg, h, rho_m,
             FDiv(FMul(FMul(rho_m, v_m), d_in), FMax(mu_mix, mu_floor)),
             hb_friction_factor(FDiv(FMul(FMul(rho_m, v_m), d_in), FMax(mu_mix, mu_floor)),
                                f_turb))

hb_flowing(v_sl, v_sg, d_in, theta_deg, rho_l, rho_g, mu_l, mu_g, k_holdup, f_turb, h) ==
    hb_mixture(FAdd(v_sl, v_sg), d_in, theta_deg, h,
               FAdd(FMul(h, rho_l), FMul(FSub(One, h), rho_g)),
               FAdd(FMul(h, mu_l), FMul(FSub(One, h), mu_g)), f_turb)

\* An open range of inclinations.
theta_out_of_range_Open(theta_deg) == FLeq(theta_deg, IntF(-90)) \/ FLeq(IntF(90), theta_deg)

\* theta_deg < -90 or theta_deg > 90
theta_out_of_range(theta_deg) == FLess(theta_deg, IntF(-90)) \/ FLess(IntF(90), theta_deg)

hagedorn_brown_pressure_gradient(v_sl_ft_s, v_sg_ft_s, d_in, theta_deg, rho_l_lbm_ft3, rho_g_lbm_ft3, mu_l_cp, mu_g_cp, k_holdup, f_turb) ==
    IF FLeq(d_in, Zero) THEN Raised
    ELSE IF FLeq(rho_l_lbm_ft3, Zero) \/ FLeq(rho_g_lbm_ft3, Zero) THEN Raised
    ELSE IF FLeq(mu_l_cp, Zero) \/ FLeq(mu_g_cp, Zero) THEN Raised
    ELSE IF theta_out_of_range(theta_deg) THEN Raised
    ELSE IF FLess(v_sl_ft_s, Zero) \/ FLess(v_sg_ft_s, Zero) THEN Raised
    ELSE IF FLeq(FAdd(v_sl_ft_s, v_sg_ft_s), Zero) THEN hb_no_flow(theta_deg, rho_l_lbm_ft3)
    ELSE hb_flowing(v_sl_ft_s, v_sg_ft_s, d_in, theta_deg, rho_l_lbm_ft3, rho_g_lbm_ft3,
                    mu_l_cp, mu_g_cp, k_holdup, f_turb,
                    hagedorn_brown_holdup(v_sl_ft_s, v_sg_ft_s, k_holdup).holdup)

\* Inputs of the Hagedorn-Brown calls.
HBVelocities ==
    {<<One, Zero>>, <<Zero, One>>, <<IntF(3), One>>, <<IntF(16), IntF(9)>>, <<One, One>>,
     <<One, IntF(3)>>}

\* Liquid alone and gas alone: the holdup is one of its clamps.
SinglePhase == {<<One, Zero>>, <<Zero, One>>}

\* Hardly any liquid: the no-slip fraction is 1e-7.
TraceOfLiquid == <<One, IntF(9999999)>>

NoFlow == <<Zero, Zero>>

HBBadVelocities == {<<IntF(-1), IntF(2)>>, <<One, IntF(-1)>>}

HBFactors == {Zero, Rat(3, 20), One, IntF(10), IntF(-1)}

HBThetas ==
    {IntF(-120), IntF(-91), IntF(-90), IntF(-50), Zero, IntF(50), IntF(90), IntF(91)}

HBDiameters == {One, IntF(100)}

HBHoldupCall(v, k) == [op |-> "hagedorn_brown_holdup", v_sl |-> v[1], v_sg |-> v[2], k |-> k]

HBGradientCall(v, d_in, theta_deg, rho, mu, k) ==
    [op |-> "hagedorn_brown_pressure_gradient", v_sl |-> v[1], v_sg |-> v[2], d_in |-> d_in,
     theta_deg |-> theta_deg, rho_l |-> rho[1], rho_g |-> rho[2], mu_l |-> mu[1],
     mu_g |-> mu[2], k_holdup |-> k, f_turb |-> Rat(1, 50)]

InitHB ==
    /\ ret = Pending
    /\ \/ \E v \in HBVelocities \cup {TraceOfLiquid, NoFlow} \cup HBBadVelocities :
          \E k \in HBFactors : args = HBHoldupCall(v, k)
       \/ \E v \in HBVelocities \cup {NoFlow} \cup HBBadVelocities : \E d_in \in HBDiameters :
          \E theta_deg \in HBThetas : \E k \in {Rat(3, 20), IntF(10)} :
              /\ theta_deg \in Thetas => (v \notin SinglePhase /\ k = Rat(3, 20))
              /\ args = HBGradientCall(v, d_in, theta_deg, Rho0, Mu0, k)
       \/ \E x \in NonPositive : \E v \in {NoFlow, <<One, One>>} :
              \/ args = HBGradientCall(v, x, Zero, Rho0, Mu0, Rat(3, 20))
              \/ args = HBGradientCall(v, One, Zero, <<x, One>>, Mu0, Rat(3, 20))
              \/ args = HBGradientCall(v, One, Zero, <<One, x>>, Mu0, Rat(3, 20))
              \/ args = HBGradientCall(v, One, Zero, Rho0, <<x, One>>, Rat(3, 20))
              \/ args = HBGradientCall(v, One, Zero, Rho0, <<One, x>>, Rat(3, 20))

CallHBHoldup ==
    /\ ret = Pending
    /\ args.op = "hagedorn_brown_holdup"
    /\ ret' = hagedorn_brown_holdup(args.v_sl, args.v_sg, args.k)
    /\ UNCHANGED args

CallHBPressureGradient ==
    /\ ret = Pending
    /\ args.op = "hagedorn_brown_pressure_gradient"
    /\ ret' = hagedorn_brown_pressure_gradient(args.v_sl, args.v_sg, args.d_in, args.theta_deg,
                                               args.rho_l, args.rho_g, args.mu_l, args.mu_g,
                                               args.k_holdup, args.f_turb)
    /\ UNCHANGED args

NextHB == CallHBHoldup \/ CallHBPressureGradient

SpecHB == InitHB /\ [][NextHB]_vars

(***************************************************************************)
(* Hagedorn-Brown: claims                                                  *)
(***************************************************************************)
HBHoldupDone == args.op = "hagedorn_brown_holdup" /\ ret # Pending
HBGradientDone == args.op = "hagedorn_brown_pressure_gradient" /\ ret # Pending
HBDone == HBHoldupDone \/ HBGradientDone

\* v_sl + v_sg > 0 with both velocities >= 0.
HBFlowing ==
    /\ FLeq(Zero, args.v_sl) /\ FLeq(Zero, args.v_sg)
    /\ FLess(Zero, FAdd(args.v_sl, args.v_sg))

\* lambda_l = v_sl / (v_sl + v_sg)
HBNoSlipFraction == FDiv(args.v_sl, FAdd(args.v_sl, args.v_sg))

\* The statement of C12 as it was made: every accepted input, zero flow
\* included, gives a holdup strictly between 0 and 1.
C12_StrictlyInside ==
    (HBGradientDone /\ ret.status = "ok") =>
        (FLess(Zero, ret.holdup) /\ FLess(ret.holdup, One))

\* C12: hagedorn_brown_pressure_gradient returns a holdup in
\* [1e-6, 0.999999] for every accepted input with v_sl + v_sg > 0, and the
\* holdup 1.0 exactly for the accepted zero-flow input v_sl = v_sg = 0.
C12_HoldupRange ==
    (HBGradientDone /\ ret.status = "ok") =>
        /\ HBFlowing => (FLeq(h_min, ret.holdup) /\ FLeq(ret.holdup, h_max))
        /\ ~HBFlowing => (args.v_sl = Zero /\ args.v_sg = Zero /\ ret.holdup = One)

\* Gas alone has flowed: the holdup is the floor 1e-6, above the no-slip
\* fraction 0.
C12_Witness ==
    /\ HBGradientDone /\ ret.status = "ok"
    /\ args.v_sl = Zero /\ FLess(Zero, args.v_sg)
    /\ ret.holdup = h_min

\* The zero-flow input is accepted and its holdup is 1.0.
C12_WitnessNoFlow ==
    /\ HBGradientDone /\ ret.status = "ok"
    /\ args.v_sl = Zero /\ args.v_sg = Zero
    /\ ret.holdup = One

\* The statement of C13 as it was made: lambda_l <= h < 1 for every k >= 0,
\* pure liquid included.
C13_NeverBelowNoSlip ==
    (HBHoldupDone /\ ret.status = "ok" /\ HBFlowing /\ FLeq(Zero, args.k)) =>
        (FLeq(HBNoSlipFraction, ret.holdup) /\ FLess(ret.holdup, One))

\* C13: for v_sl + v_sg > 0 and every k, hagedorn_brown_holdup returns h in
\* [1e-6, 0.999999]; h is not below the no-slip fraction lambda_l when
\* lambda_l <= 0.999999, and h = 0.999999 < lambda_l when lambda_l is
\* above 0.999999 (liquid alone).
C13_NoSlipUpToCap ==
    (HBHoldupDone /\ HBFlowing) =>
        /\ ret.status = "ok"
        /\ FLeq(h_min, ret.holdup) /\ FLeq(ret.holdup, h_max)
        /\ FLeq(HBNoSlipFraction, h_max) => FLeq(HBNoSlipFraction, ret.holdup)
        /\ FLess(h_max, HBNoSlipFraction) => ret.holdup = h_max

\* Liquid alone: the no-slip fraction is 1 and the holdup is the cap.
C13_Witness ==
    /\ HBHoldupDone /\ ret.status = "ok" /\ HBFlowing
    /\ HBNoSlipFraction = One
    /\ ret.holdup = h_max

\* A negative factor k, where only max(h, lam_l) keeps the holdup at the
\* no-slip fraction.
C13_WitnessNegativeFactor ==
    /\ HBHoldupDone /\ ret.status = "ok" /\ HBFlowing
    /\ FLess(args.k, Zero) /\ FLess(Zero, args.v_sg) /\ FLess(h_min, HBNoSlipFraction)
    /\ ret.holdup = HBNoSlipFraction

\* The arguments hagedorn_brown_pressure_gradient rejects.
HBInvalidInputs ==
    \/ FLeq(args.d_in, Zero)
    \/ FLeq(args.rho_l, Zero) \/ FLeq(args.rho_g, Zero)
    \/ FLeq(args.mu_l, Zero) \/ FLeq(args.mu_g, Zero)
    \/ FLess(args.theta_deg, IntF(-90)) \/ FLess(IntF(90), args.theta_deg)
    \/ FLess(args.v_sl, Zero) \/ FLess(args.v_sg, Zero)

\* C15: hagedorn_brown_pressure_gradient raises for an inclination outside
\* [-90, 90], a diameter <= 0, a density <= 0, a viscosity <= 0 and a
\* negative velocity, and returns a result for every other input, the
\* inclinations -90 and 90 included.
C15_Validation ==
    HBGradientDone =>
        /\ HBInvalidInputs => ret = Raised
        /\ ~HBInvalidInputs => ret.status = "ok"

\* A flowing call at the bound of the range of inclinations has returned.
C15_Witness ==
    /\ HBGradientDone /\ ~HBInvalidInputs /\ HBFlowing
    /\ args.theta_deg \in {IntF(-90), IntF(90)}
    /\ ret.status = "ok" /\ isfinite(ret.dp_dz_psi_per_ft)

\* A call whose only invalid argument is the inclination has raised.
C15_WitnessAngle ==
    /\ HBGradientDone /\ ret = Raised
    /\ FLess(IntF(90), args.theta_deg)
    /\ FLess(Zero, args.d_in) /\ FLeq(Zero, args.v_sl) /\ FLeq(Zero, args.v_sg)

(***************************************************************************)
(* vlp.vlp_curve_model over the gradient correlations                      *)
(*                                                                         *)
(* The builders compute v_sl = ql / area and v_sg = qg / area and call the *)
(* gradient correlation of the model for every grid entry that is not a    *)
(* static column.  Rates are measured in the units in which the area is    *)
(* d * d and the conversions of both rates are 1.                          *)
(***************************************************************************)
\* The defaults of rho_g, mu_g, sigma_dyn_cm and k_holdup.
rho_g_default == Rat(1, 72)
mu_g_default == Rat(1, 50)
sigma_default == IntF(30)
k_holdup_default == Rat(3, 20)

is_hagedorn_brown(model) ==
    norm_model(model) \in {S_hagedorn_brown, S_hagedorn_dash_brown, S_hb}

is_blackoil(model) ==
    norm_model(model) \in {S_beggs_brill_blackoil, S_bb_blackoil, S_beggsbrill_blackoil}

\* The call of the gradient correlation for one grid entry.  pvt holds the
\* densities of the PVT table that the black-oil builder passes on.
vlp_gradient(model, ql, qg, rho, mu, d, kwargs, corr, pvt) ==
    IF d = Zero THEN Raised
    ELSE IF is_hagedorn_brown(model)
    THEN hagedorn_brown_pressure_gradient(
             FDiv(ql, FMul(d, d)), FDiv(qg, FMul(d, d)), d,
             get(kwargs, "theta_deg", IntF(90)), rho, get(kwargs, "rho_g", rho_g_default),
             mu, get(kwargs, "mu_g", mu_g_default),
             get(kwargs, "k_holdup", k_holdup_default), corr.f_turb)
    ELSE beggs_brill_pressure_gradient(
             FDiv(ql, FMul(d, d)), FDiv(qg, FMul(d, d)), d,
             get(kwargs, "theta_deg", IntF(90)),
             IF is_blackoil(model) THEN pvt.rho_l ELSE rho,
             IF is_blackoil(model) THEN pvt.rho_g ELSE get(kwargs, "rho_g", rho_g_default),
             mu, get(kwargs, "mu_g", mu_g_default),
             get(kwargs, "sigma_dyn_cm", sigma_default), get(kwargs, "p_psia", None), corr)

\* dp_dz_psi_per_ft of a result of the gradient correlation.
dp_dz_of(res) == IF res.status = "ok" THEN res.dp_dz_psi_per_ft ELSE NaN

\* What the gradient correlation returns along the grid.
vlp_gradients(model, q_range, qg_mscf_d, rho, mu, d, kwargs, corr, pvt) ==
    [dp_dz |-> [k \in DOMAIN q_range |->
                   IF calls_gradient(q_range[k], qg_mscf_d[k])
                   THEN dp_dz_of(vlp_gradient(model, q_range[k], qg_mscf_d[k], rho, mu, d,
                                              kwargs, corr, pvt))
                   ELSE NaN],
     raises |-> {k \in DOMAIN q_range :
                   /\ calls_gradient(q_range[k], qg_mscf_d[k])
                   /\ vlp_gradient(model, q_range[k], qg_mscf_d[k], rho, mu, d,
                                   kwargs, corr, pvt).status # "ok"},
     rho_l |-> pvt.rho_l]

\* vlp_curve_model with the gradient correlations of the library.
vlp_curve_model_of(model, q_range, well_depth, rho, mu, d, kwargs, corr, pvt) ==
    vlp_curve_model(model, q_range, well_depth, rho, mu, d, kwargs,
                    IF gas_rates(q_range, kwargs).status = "ok"
                    THEN vlp_gradients(model, q_range, gas_rates(q_range, kwargs).a, rho, mu,
                                       d, kwargs, corr, pvt)
                    ELSE NoExt)

\* Inputs of the outflow curve builders.
GridLen == 2

\* (liquid rate, gas rate) of a grid entry: no flow, liquid alone, a
\* mixture, and entries with a negative rate.
StaticEntry == <<Zero, Zero>>
LiquidAlone == <<One, Zero>>
FlowingEntries == {LiquidAlone, <<Rat(1, 4), Rat(3, 4)>>}
NegativeEntries ==
    {<<IntF(-1), Zero>>, <<IntF(-1), IntF(2)>>, <<Zero, IntF(-1)>>, <<One, IntF(-1)>>}
GridEntries == {StaticEntry} \cup FlowingEntries \cup NegativeEntries

Grids == UNION {[1..n -> GridEntries] : n \in 1..GridLen}

Liquid(grid) == [k \in DOMAIN grid |-> grid[k][1]]
Gas(grid) == [k \in DOMAIN grid |-> grid[k][2]]

\* The gas rates as the caller passes them: nothing for no gas, the
\* constant q_gas_mscf_d for one rate, and q_gas_range_mscf_d otherwise.
GasKwargs(grid) ==
    IF \A k \in DOMAIN grid : grid[k][2] = Zero THEN NoKwargs
    ELSE IF \A k \in DOMAIN grid : grid[k][2] = grid[1][2]
    THEN Kw1("q_gas_mscf_d", grid[1][2])
    ELSE Kw1("q_gas_range_mscf_d", Gas(grid))

FluidKwargs(model) ==
    IF is_blackoil(model)
    THEN Kw3("t_f", IntF(180), "api", IntF(35), "gamma_g", Rat(7, 10)) @@ Kw1("mu_g", Rat(1, 2))
    ELSE Kw2("rho_g", One, "mu_g", Rat(1, 2))

\* theta_deg and p_wh.
WellKwargs == {Kw1("theta_deg", IntF(50)), Kw2("theta_deg", Zero, "p_wh", IntF(3))}

\* (well_depth, d): valid, and one of the two not positive.
Geometries ==
    {<<One, One>>, <<Zero, One>>, <<IntF(-2), One>>, <<One, Zero>>, <<One, IntF(-1)>>}

VlpModels == {S_darcy, S_beggs_brill, S_hagedorn_brown, S_beggs_brill_blackoil}

\* The densities of the PVT table.
Pvt == [rho_l |-> IntF(2), rho_g |-> One]

\* The values of the transcendental functions of the gradient calls.
VlpCorr(kwargs) ==
    Corr(IF kwargs["theta_deg"] = Zero THEN Horizontal
         ELSE [segregated |-> IntF(1), intermittent |-> IntF(-1), downhill |-> Rat(-1, 2)],
         One)

VlpCall(model, grid, geometry, kwargs) ==
    [op |-> "vlp_curve_model", model |-> model, q_range |-> Liquid(grid),
     well_depth |-> geometry[1], rho |-> IntF(2), mu |-> One, d |-> geometry[2],
     kwargs |-> kwargs, corr |-> VlpCorr(kwargs), pvt |-> Pvt]

InitVLP ==
    /\ ret = Pending
    /\ \/ \E model \in VlpModels, grid \in Grids, geometry \in Geometries, w \in WellKwargs :
              /\ (is_hagedorn_brown(model) /\ w["theta_deg"] # Zero) =>
                     \A k \in DOMAIN grid : grid[k] # LiquidAlone
              /\ args = VlpCall(model, grid, geometry,
                                w @@ GasKwargs(grid) @@ FluidKwargs(model))
       \/ \E model \in {S_beggs_brill, S_hagedorn_brown}, grid \in Grids :
              \/ args = VlpCall(model, grid, <<One, One>>,
                                Kw1("theta_deg", Zero) @@ FluidKwargs(model) @@
                                Kw2("q_gas_mscf_d", Zero, "q_gas_range_mscf_d", Gas(grid)))
              \/ args = VlpCall(model, grid, <<One, One>>,
                                Kw1("theta_deg", Zero) @@ FluidKwargs(model) @@
                                Kw1("q_gas_range_mscf_d", Gas(grid) \o <<Zero>>))

CallVlpCurveModel ==
    /\ ret = Pending
    /\ args.op = "vlp_curve_model"
    /\ ret' = vlp_curve_model_of(args.model, args.q_range, args.well_depth, args.rho, args.mu,
                                 args.d, args.kwargs, args.corr, args.pvt)
    /\ UNCHANGED args

NextVLP == CallVlpCurveModel

SpecVLP == InitVLP /\ [][NextVLP]_vars

(***************************************************************************)
(* Outflow curve builders: claims                                          *)
(***************************************************************************)
VlpDone == args.op = "vlp_curve_model" /\ ret # Pending

\* The models built on a gradient correlation.
VlpMultiphase == norm_model(args.model) # S_darcy

\* The gas rates of the call (the builders raise when they are ill-formed).
VlpGas == gas_rates(args.q_range, args.kwargs)

\* The liquid density that the builder uses.
VlpRhoL == IF is_blackoil(args.model) THEN args.pvt.rho_l ELSE args.rho

\* p_wh + (rho_l * sin(theta) / 144) * L
StaticPressure ==
    FAdd(get(args.kwargs, "p_wh", Zero),
         FMul(FMul(VlpRhoL, sin_deg(get(args.kwargs, "theta_deg", IntF(90)))),
              args.well_depth))

IsStaticEntry(k) == args.q_range[k] = Zero /\ VlpGas.a[k] = Zero

\* C16: an entry of the grid with liquid rate 0 and gas rate 0 gets
\* p_wh + (rho_l * sin(theta) / 144) * L from vlp_curve_beggs_brill and
\* vlp_curve_hagedorn_brown, and it never makes the builder raise: a grid of
\* such entries only always returns.
C16_StaticColumn ==
    (VlpDone /\ VlpMultiphase /\ VlpGas.status = "ok") =>
        /\ (\A k \in DOMAIN args.q_range : IsStaticEntry(k)) => ret.status = "ok"
        /\ ret.status = "ok" =>
               \A k \in DOMAIN args.q_range : IsStaticEntry(k) => ret.a[k] = StaticPressure

\* A Beggs-Brill curve over a static entry and a flowing one has been built:
\* the static entry did not reach the correlation, which rejects v_m = 0.
C16_Witness ==
    /\ VlpDone /\ norm_model(args.model) = S_beggs_brill /\ VlpGas.status = "ok"
    /\ ret.status = "ok"
    /\ Len(args.q_range) = 2
    /\ IsStaticEntry(1) /\ FLess(Zero, args.q_range[2])
    /\ ret.a[1] = StaticPressure /\ ret.a[2] # ret.a[1]
    /\ StaticPressure # Zero

\* C17: whenever the grid of a multiphase builder holds a negative liquid
\* rate or a negative gas rate, the builder raises.
C17_NegativeRateRaises ==
    (VlpDone /\ VlpMultiphase /\ VlpGas.status = "ok"
       /\ \E k \in DOMAIN args.q_range :
              FLess(args.q_range[k], Zero) \/ FLess(VlpGas.a[k], Zero)) =>
        ret.status # "ok"

\* C18: vlp_curve_model raises for well_depth <= 0 and for d <= 0, whatever
\* the model and the grid.
C18_GeometryRaises ==
    (VlpDone /\ (FLeq(args.well_depth, Zero) \/ FLeq(args.d, Zero))) => ret.status # "ok"

\* The kwargs of the call for the k-th entry alone.
SingleKwargs(k) ==
    [x \in DOMAIN args.kwargs \ {"q_gas_mscf_d", "q_gas_range_mscf_d"} |-> args.kwargs[x]]
      @@ Kw1("q_gas_mscf_d", VlpGas.a[k])

\* The curve of the grid that holds the k-th entry alone.
Single(k) ==
    vlp_curve_model_of(args.model, <<args.q_range[k]>>, args.well_depth, args.rho, args.mu,
                       args.d, SingleKwargs(k), args.corr, args.pvt)

\* C19: the curve has the length of the grid and its k-th pressure is the
\* pressure of the k-th rate entry evaluated alone, so that the order of
\* evaluation and the other entries of the grid do not matter; the builder
\* raises exactly when one of the entries alone makes it raise.
C19_PointByPoint ==
    (VlpDone /\ VlpGas.status = "ok") =>
        /\ ret.status = "ok" <=> \A k \in DOMAIN args.q_range : Single(k).status = "ok"
        /\ ret.status = "ok" =>
               /\ Len(ret.a) = Len(args.q_range)
               /\ \A k \in DOMAIN args.q_range : ret.a[k] = Single(k).a[1]

\* A curve over two flowing entries with two different pressures.
C19_Witness ==
    /\ VlpDone /\ VlpMultiphase /\ VlpGas.status = "ok" /\ ret.status = "ok"
    /\ Len(args.q_range) = 2
    /\ FLess(Zero, args.q_range[1]) /\ FLess(Zero, args.q_range[2])
    /\ FLess(Zero, VlpGas.a[1])
    /\ ret.a[1] # ret.a[2]
    /\ isfinite(ret.a[1]) /\ isfinite(ret.a[2])

(***************************************************************************)
(* Gradients: further claims                                               *)
(***************************************************************************)
\* The Darcy-Weisbach friction gradient f * rho * v^2 / (2 * g * d) of the
\* returned two-phase friction factor and no-slip density.
DarcyWeisbachFriction ==
    FDiv(FMul(ret.friction_factor_tp,
              FMul(ret.rho_ns_lbm_ft3,
                   FMul(FAdd(args.v_sl, args.v_sg), FAdd(args.v_sl, args.v_sg)))),
         FMul(IntF(2), args.d_in))

\* C21: without a pressure the Beggs-Brill gradient is the hydrostatic
\* component plus the Darcy-Weisbach friction f_tp * rho_ns * v_m^2 /
\* (2 * g_c * d), the form of the Hagedorn-Brown friction term.
C21_DarcyWeisbach ==
    (GradientDone /\ ret.status = "ok" /\ args.p_psia = None) =>
        ret.dp_dz_psi_per_ft =
            FAdd(DarcyWeisbachFriction, FMul(ret.rho_m_lbm_ft3, sin_deg(args.theta_deg)))
(***************************************************************************)
(* flowline.py: pressure drop of a flowline, and the dispatch by model     *)
(* name.  Units as in vlp.py above: the area is d * d and g is 1.          *)
(***************************************************************************)
available_flowline_models == <<S_darcy, S_beggs_brill>>

Scalar(x) == [status |-> "ok", x |-> x]

\* flowline_pressure_drop: v = q_ft3_s / A raises ZeroDivisionError for d = 0.
flowline_pressure_drop(q, L, d, rho, mu, f, elev) ==
    IF d = Zero THEN RaisedZeroDivisionError
    ELSE Scalar(FAdd(FMul(FMul(f, FDiv(L, d)),
                          FMul(rho, FDiv(FMul(FDiv(q, FMul(d, d)), FDiv(q, FMul(d, d))), IntF(2)))),
                     FMul(rho, elev)))

\* _theta_from_elev: degrees(asin(x)) of x = elev_ft / L clamped to [-1, 1],
\* for the ratios whose angle is tabulated in sin_deg.
theta_from_elev(L, elev_ft) ==
    LET x == FDiv(elev_ft, L)
    IN  IF FLeq(One, x) THEN IntF(90)
        ELSE IF FLeq(x, IntF(-1)) THEN IntF(-90)
        ELSE IF x = sin_deg(IntF(50)) THEN IntF(50)
        ELSE IF x = sin_deg(IntF(-50)) THEN IntF(-50)
        ELSE Zero

\* The pressure drop dp_dz * L of a result of the gradient correlation.
flowline_drop(res, L) ==
    IF res.status # "ok" THEN res ELSE Scalar(FMul(res.dp_dz_psi_per_ft, L))

flowline_pressure_drop_beggs_brill(q_liq_stb_d, L_ft, d_in, rho_l_lbm_ft3, mu_l_cp, elev_ft, q_gas_mscf_d, rho_g_lbm_ft3, mu_g_cp, sigma_dyn_cm, theta_deg, p_psia, corr) ==
    IF FLeq(L_ft, Zero) \/ FLeq(d_in, Zero) THEN Raised
    ELSE LET theta == IF theta_deg = None THEN theta_from_elev(L_ft, elev_ft) ELSE theta_deg
         IN  IF FLeq(q_liq_stb_d, Zero) /\ FLeq(q_gas_mscf_d, Zero)
             THEN Scalar(FMul(FMul(rho_l_lbm_ft3, sin_deg(theta)), L_ft))
             ELSE flowline_drop(
                      beggs_brill_pressure_gradient(
                          FDiv(q_liq_stb_d, FMul(d_in, d_in)), FDiv(q_gas_mscf_d, FMul(d_in, d_in)),
                          d_in, theta, rho_l_lbm_ft3, rho_g_lbm_ft3, mu_l_cp, mu_g_cp,
                          sigma_dyn_cm, p_psia, corr),
                      L_ft)

flowline_pressure_drop_model(model, q, L, d, rho, mu, f, elev, kwargs, corr) ==
    LET m == norm_model(model)
    IN  IF m \in {S_darcy, S_darcy_weisbach, S_darcy_dash_weisbach}
        THEN flowline_pressure_drop(q, L, d, rho, mu, f, elev)
        ELSE IF m \in {S_beggs_brill, S_beggs_dash_brill, S_bb}
        THEN flowline_pressure_drop_beggs_brill(
                 q, L, d, rho, mu, elev, get(kwargs, "q_gas_mscf_d", Zero),
                 get(kwargs, "rho_g_lbm_ft3", get(kwargs, "rho_g", rho_g_default)),
                 get(kwargs, "mu_g_cp", get(kwargs, "mu_g", mu_g_default)),
                 get(kwargs, "sigma_dyn_cm", sigma_default),
                 get(kwargs, "theta_deg", None), get(kwargs, "p_psia", None), corr)
        ELSE Raised

(***************************************************************************)
(* Calls of the three dispatchers with model names in many spellings and   *)
(* with arguments that every registered model accepts.                     *)
(***************************************************************************)
S_blank == <<" ", " ">>
S_BB == <<" ", "B", "B", " ">>
S_beggs_brill_2 == <<"b", "e", "g", "g", "s", "_", "b", "r", "i", "l", "l", "2">>
S_beggs_space_brill == <<"b", "e", "g", "g", "s", " ", "b", "r", "i", "l", "l">>
S_beggsbrill == <<"b", "e", "g", "g", "s", "b", "r", "i", "l", "l">>
S_Hagedorn_Brown == <<"H", "a", "g", "e", "d", "o", "r", "n", "-", "B", "r", "o", "w", "n", " ">>
S_BB_BlackOil == <<"B", "B", "-", "B", "l", "a", "c", "k", "O", "i", "l">>

ModelNames ==
    {S_darcy, S_darcy_weisbach, S_VLP1, S_beggs_brill, S_VLP2, S_beggs_space_brill, S_bb, S_BB,
     S_hagedorn_brown, S_VLP3, S_Hagedorn_Brown, S_hb, S_beggs_brill_blackoil, S_bb_blackoil,
     S_BB_BlackOil, S_beggsbrill_blackoil,
     S_vogel, S_IPR1, S_fetkovich, S_IPR2, S_jones, S_IPR3, S_standing,
     S_bogus, S_blank, <<>>, S_beggs_brill_2, S_beggsbrill}

\* Kwargs that satisfy every inflow model and every outflow builder.
AllIprKwargs == Kw3("J", Rat(1, 3), "C", IntF(3), "D", Zero) @@ Kw1("p_b", IntF(3))
AllVlpKwargs ==
    Kw3("t_f", IntF(180), "api", IntF(35), "gamma_g", Rat(7, 10)) @@
    Kw3("rho_g", One, "mu_g", Rat(1, 2), "theta_deg", Zero)

DispatchGrids == {<<StaticEntry>>, <<StaticEntry, LiquidAlone>>, <<<<Rat(1, 4), Rat(3, 4)>>>>}

FlowlineCall(model, q, elev, kwargs) ==
    [op |-> "flowline_pressure_drop_model", model |-> model, q |-> q, L |-> One, d |-> One,
     rho |-> IntF(2), mu |-> One, f |-> f_default, elev |-> elev, kwargs |-> kwargs,
     corr |-> Corr(Horizontal, One)]

FlowlineKwargs ==
    {NoKwargs, Kw3("q_gas_mscf_d", Rat(3, 4), "rho_g", One, "mu_g", Rat(1, 2)),
     Kw1("theta_deg", Zero)}

InitDispatch ==
    /\ ret = Pending
    /\ \/ \E model \in ModelNames, grid \in DispatchGrids :
              args = VlpCall(model, grid, <<One, One>>, AllVlpKwargs @@ GasKwargs(grid))
       \/ \E model \in ModelNames, q \in {Zero, One, Rat(1, 4)}, kwargs \in FlowlineKwargs :
              /\ (q = Rat(1, 4)) = ("q_gas_mscf_d" \in DOMAIN kwargs)
              /\ args = FlowlineCall(model, q, Zero, kwargs)
       \/ \E model \in ModelNames :
              args = FlowlineCall(model, Zero, sin_deg(IntF(50)), NoKwargs)
       \/ \E op \in NodalOps, ipr_model \in ModelNames, vlp_model \in ModelNames :
              args = Call(op, IntF(6), One, One, One, One, One, NptsMin,
                          <<ipr_model, AllIprKwargs>>, <<vlp_model, AllVlpKwargs, Ext(Rising)>>)

CallFlowlinePressureDropModel ==
    /\ ret = Pending
    /\ args.op = "flowline_pressure_drop_model"
    /\ ret' = flowline_pressure_drop_model(args.model, args.q, args.L, args.d, args.rho,
                                           args.mu, args.f, args.elev, args.kwargs, args.corr)
    /\ UNCHANGED args

NextDispatch ==
    \/ CallVlpCurveModel
    \/ CallFlowlinePressureDropModel
    \/ CallNodalAnalysisDetail
    \/ CallNodalAnalysis

SpecDispatch == InitDispatch /\ [][NextDispatch]_vars

(***************************************************************************)
(* Dispatch by name: claims                                                *)
(***************************************************************************)
\* The spellings of ModelNames that name a registered model or an alias of
\* each dispatcher, written out name by name.
VlpSpellings ==
    {S_darcy, S_darcy_weisbach, S_VLP1, S_beggs_brill, S_VLP2, S_beggs_space_brill, S_bb, S_BB,
     S_hagedorn_brown, S_VLP3, S_Hagedorn_Brown, S_hb, S_beggs_brill_blackoil, S_bb_blackoil,
     S_BB_BlackOil, S_beggsbrill_blackoil}
FlowlineSpellings ==
    {S_darcy, S_darcy_weisbach, S_VLP1, S_beggs_brill, S_VLP2, S_beggs_space_brill, S_bb, S_BB}
IprSpellings == {S_vogel, S_IPR1, S_fetkovich, S_IPR2, S_jones, S_IPR3, S_standing}

RaisedValueError == ret.status = "ValueError"
DispatchDone == ret # Pending

C22_WitnessUnknown ==
    /\ DispatchDone /\ args.op \in NodalOps
    /\ args.ipr_model = S_IPR1 /\ args.vlp_model = S_beggs_brill_2 /\ RaisedValueError

C22_WitnessFlowline ==
    /\ DispatchDone /\ args.op = "flowline_pressure_drop_model"
    /\ args.model = S_hagedorn_brown /\ RaisedValueError
(***************************************************************************)
(* The Beggs and Brill gradient over the inclination: calls at the angles  *)
(* of the sine tables, compared with the same call at another angle.       *)
(***************************************************************************)
\* Single-phase liquid at three Froude numbers, and an intermittent mixture
\* of liquid fraction 3/4 at the Froude number 1.
LiquidPoints == {<<One, Rat(1, 2)>>, <<One, One>>, <<One, IntF(10)>>}
MixturePoint == <<Rat(3, 4), One>>

\* The angles of a call: all of the sine tables for the liquid, and the
\* horizontal and the steep uphill ones for the mixture.
SteepAngles == {Zero, IntF(80), IntF(90)}
Angles == SteepAngles \cup {IntF(-180), IntF(-90), IntF(-80), IntF(-50), IntF(50), IntF(180)}
AnglesOf(v_sg) == IF v_sg = Zero THEN Angles ELSE SteepAngles

\* ln_arg of the mixture: beta = (1 - c_l) * ln_arg is 1/4, 1/2 or -1/4.
AngleLnArgs ==
    { [segregated |-> Zero, intermittent |-> One, downhill |-> One],
      [segregated |-> Zero, intermittent |-> IntF(2), downhill |-> Rat(-4, 3)],
      [segregated |-> Zero, intermittent |-> IntF(-1), downhill |-> IntF(-1)] }

\* (rho_l, rho_g) and (mu_l, mu_g): laminar and turbulent flow.
AngleRhos == {Rho0, <<IntF(20), One>>}
AngleMus == {Mu0, <<Rat(1, 1000), Rat(1, 1000)>>}

InitAngle ==
    /\ ret = Pending
    /\ \E pt \in LiquidPoints \cup {MixturePoint}, rho \in AngleRhos, mu \in AngleMus,
          ln_arg \in AngleLnArgs, p_psia \in {None, IntF(400)}, exp_S \in ExpS :
       \E theta_deg \in AnglesOf(GradientVelocity(pt)[2]) :
          args = GradientCall(GradientVelocity(pt), GradientDiameter(pt), theta_deg, rho, mu,
                              One, p_psia, Corr(ln_arg, exp_S))

NextAngle == CallPressureGradient

SpecAngle == InitAngle /\ [][NextAngle]_vars

\* The call of the state at another inclination.
GradientAtAngle(theta_deg) ==
    beggs_brill_pressure_gradient(args.v_sl, args.v_sg, args.d_in, theta_deg, args.rho_l,
                                  args.rho_g, args.mu_l, args.mu_g, args.sigma, args.p_psia,
                                  args.corr)

\* The logarithms of ln_arg that the holdup at an inclination reads.  One
\* logarithm takes any value as the surface tension varies; two of them do not.
LnFields(theta_deg, regime) ==
    IF theta_deg = Zero \/ args.v_sg = Zero THEN {}
    ELSE IF FLess(theta_deg, Zero) THEN {"downhill"}
    ELSE IF regime = "segregated" THEN {"segregated"}
    ELSE IF regime = "intermittent" THEN {"intermittent"}
    ELSE IF regime = "transition" THEN {"segregated", "intermittent"}
    ELSE {}

\* exp(S) is computed, not read from corr.exp_S.
ComputedExpS(y) == y = One \/ (FLess(One, y) /\ FLess(y, Rat(6, 5)))

AngleY(res) == two_phase_y(FDiv(args.v_sl, FAdd(args.v_sl, args.v_sg)), res.holdup)

\* The values of corr are those of both calls: the call of the state and the
\* call at theta_deg read at most one logarithm, and the same exp(S) if any.
Comparable(theta_deg) ==
    /\ GradientAtAngle(theta_deg).status = "ok"
    /\ Cardinality(LnFields(args.theta_deg, ret.regime) \cup LnFields(theta_deg, ret.regime)) <= 1
    /\ \/ AngleY(ret) = AngleY(GradientAtAngle(theta_deg))
       \/ ComputedExpS(AngleY(ret)) /\ ComputedExpS(AngleY(GradientAtAngle(theta_deg)))

AngleDone == args.op = "beggs_brill_pressure_gradient" /\ ret # Pending /\ ret.status = "ok"

AngleInRange(theta_deg) == FLeq(IntF(-90), theta_deg) /\ FLeq(theta_deg, IntF(90))

C23_WitnessFalls ==
    /\ AngleDone /\ args.theta_deg = IntF(80) /\ args.v_sg # Zero /\ Comparable(IntF(90))
    /\ FLess(GradientAtAngle(IntF(90)).dp_dz_psi_per_ft, ret.dp_dz_psi_per_ft)
(***************************************************************************)
(* Hagedorn-Brown: the gradient over the inclination                       *)
(***************************************************************************)
\* The call of the state at another inclination.
HBGradientAtAngle(theta_deg) ==
    hagedorn_brown_pressure_gradient(args.v_sl, args.v_sg, args.d_in, theta_deg, args.rho_l,
                                     args.rho_g, args.mu_l, args.mu_g, args.k_holdup,
                                     args.f_turb)

\* The inclinations the call of the state is compared at.
HBAnglesOf ==
    IF <<args.v_sl, args.v_sg>> \in SinglePhase \/ args.k_holdup # Rat(3, 20)
    THEN {IntF(-90), Zero, IntF(90)}
    ELSE {IntF(-90), IntF(-50), Zero, IntF(50), IntF(90)}

HBPositiveVelocities == FLess(Zero, args.v_sl) /\ FLess(Zero, args.v_sg)

HBAngleDone == HBGradientDone /\ ret.status = "ok" /\ HBPositiveVelocities

\* f * rho_m * v_m^2 / (2 * g * d) of the returned f_darcy and rho_m.
HBFrictionOfResult ==
    FDiv(FMul(ret.f_darcy, FMul(ret.rho_m_lbm_ft3,
                                FMul(FAdd(args.v_sl, args.v_sg), FAdd(args.v_sl, args.v_sg)))),
         FMul(IntF(2), args.d_in))

\* C24: for fixed positive velocities and properties the Hagedorn-Brown
\* gradient is strictly increasing in the inclination over [-90, 90], the
\* holdup is the same at every inclination, and the horizontal gradient is
\* the friction term and strictly positive.
C24_IncreasesWithAngle ==
    HBAngleDone =>
        /\ \A theta2 \in HBAnglesOf :
              /\ HBGradientAtAngle(theta2).status = "ok"
              /\ HBGradientAtAngle(theta2).holdup = ret.holdup
              /\ FLess(args.theta_deg, theta2) =>
                     FLess(ret.dp_dz_psi_per_ft, HBGradientAtAngle(theta2).dp_dz_psi_per_ft)
        /\ args.theta_deg = Zero =>
              /\ ret.dp_dz_psi_per_ft = HBFrictionOfResult
              /\ FLess(Zero, ret.dp_dz_psi_per_ft)

\* A horizontal mixture, below the gradient at 50 degrees and above the
\* gradient at -50 degrees.
C24_Witness ==
    /\ HBAngleDone /\ args.theta_deg = Zero /\ FLess(Zero, ret.dp_dz_psi_per_ft)
    /\ IntF(50) \in HBAnglesOf
    /\ FLess(ret.dp_dz_psi_per_ft, HBGradientAtAngle(IntF(50)).dp_dz_psi_per_ft)
    /\ FLess(HBGradientAtAngle(IntF(-50)).dp_dz_psi_per_ft, ret.dp_dz_psi_per_ft)
(***************************************************************************)
(* Beggs and Brill: single-phase liquid                                    *)
(***************************************************************************)
\* An accepted call with v_sg = 0 and v_sl > 0.
LiquidDone == AngleDone /\ args.v_sg = Zero /\ FLess(Zero, args.v_sl)

\* C25: for v_sg = 0 and v_sl > 0 the holdup is 1, the mixture density is the
\* liquid density, the two-phase friction factor is the no-slip friction
\* factor, and the gradient of a horizontal or uphill pipe is positive.
C25_SinglePhaseLiquid ==
    LiquidDone =>
        /\ ret.holdup = One
        /\ ret.rho_m_lbm_ft3 = args.rho_l
        /\ ret.friction_factor_tp = darcy_friction_factor(ret.re_ns, args.corr.f_turb)
        /\ (FLeq(Zero, args.theta_deg) /\ FLeq(args.theta_deg, IntF(90))) =>
               FLess(Zero, ret.dp_dz_psi_per_ft)

\* Liquid alone uphill, with a value of exp(S) for the other y that is not 1.
C25_Witness ==
    /\ LiquidDone /\ args.theta_deg = IntF(50) /\ args.corr.exp_S # One
    /\ ret.holdup = One /\ FLess(Zero, ret.dp_dz_psi_per_ft)
(***************************************************************************)
(* The outflow curve over a grid of increasing rates                       *)
(***************************************************************************)
\* The most entries of a grid.
CurveLen == 3

\* The grids of increasing rates drawn from a set of rates.
IncreasingGrids(rates) ==
    {g \in UNION {[1..n -> rates] : n \in 2..CurveLen} :
        \A k \in 1..(Len(g) - 1) : FLess(g[k], g[k + 1])}

\* Liquid rates of the Darcy and Beggs-Brill grids (Froude numbers 1/100, 1
\* and 100 in a pipe of diameter 1), and of the Hagedorn-Brown grids (gas
\* fractions 3/4, 1/2 and 1/4 with the gas rate 3/4).
CurveRates == {Rat(1, 10), One, IntF(10)}
HBCurveRates == {Rat(1, 4), Rat(3, 4), Rat(9, 4)}
HBCurveGas == Rat(3, 4)

\* A grid of liquid rates with one gas rate.
WithGas(g, q_gas) == [k \in DOMAIN g |-> <<g[k], q_gas>>]

CurveThetas == {IntF(-90), Zero, IntF(90)}

\* The call of a builder with a liquid viscosity.
CurveCall(model, grid, geometry, mu, kwargs) ==
    [VlpCall(model, grid, geometry, kwargs @@ GasKwargs(grid) @@ FluidKwargs(model))
        EXCEPT !.mu = mu]

InitCurve ==
    /\ ret = Pending
    /\ \/ \E g \in IncreasingGrids(CurveRates \cup {Zero}), f \in {Rat(1, 50), Rat(1, 10)},
             geometry \in {<<One, One>>, <<IntF(2), IntF(2)>>} :
              args = CurveCall(S_darcy, WithGas(g, Zero), geometry, One,
                               Kw2("theta_deg", IntF(90), "f", f))
       \/ \E g \in IncreasingGrids(CurveRates \cup {Zero}), theta_deg \in CurveThetas,
             mu \in {One, Rat(1, 1000)} :
              /\ g[1] = Zero
              /\ args = CurveCall(S_beggs_brill, WithGas(g, Zero), <<One, One>>, mu,
                                  Kw1("theta_deg", theta_deg))
       \/ \E g \in IncreasingGrids(HBCurveRates), theta_deg \in CurveThetas,
             d \in {One, IntF(10)} :
              args = CurveCall(S_hagedorn_brown, WithGas(g, HBCurveGas), <<One, d>>, One,
                               Kw1("theta_deg", theta_deg))
       \/ \E g \in IncreasingGrids(CurveRates \cup {Zero}) :
              args = CurveCall(S_hagedorn_brown, WithGas(g, Zero), <<One, One>>, One,
                               Kw1("theta_deg", Zero))

NextCurve == CallVlpCurveModel

SpecCurve == InitCurve /\ [][NextCurve]_vars

CurveDone == args.op = "vlp_curve_model" /\ ret # Pending /\ ret.status = "ok"

StrictlyIncreasing(a) == \A k \in 1..(Len(a) - 1) : FLess(a[k], a[k + 1])

PositiveRates == \A k \in DOMAIN args.q_range : FLess(Zero, args.q_range[k])
NoGas == "q_gas_mscf_d" \notin DOMAIN args.kwargs /\ "q_gas_range_mscf_d" \notin DOMAIN args.kwargs
ConstantGas == "q_gas_range_mscf_d" \notin DOMAIN args.kwargs

DarcyCurve == CurveDone /\ norm_model(args.model) = S_darcy
BeggsBrillCurve ==
    CurveDone /\ norm_model(args.model) = S_beggs_brill /\ NoGas /\ args.q_range[1] = Zero
HagedornBrownCurve == CurveDone /\ norm_model(args.model) = S_hagedorn_brown /\ ConstantGas

C26_WitnessDarcy == DarcyCurve /\ PositiveRates /\ Len(ret.a) = 3 /\ StrictlyIncreasing(ret.a)

\* A Hagedorn-Brown curve with a constant gas rate that falls.
C26_WitnessFalls ==
    /\ HagedornBrownCurve /\ ~NoGas /\ FLess(ret.a[2], ret.a[1])
(***************************************************************************)
(* The caller's objects across two calls                                   *)
(***************************************************************************)
\* kwargs.pop(key) for the keys of a set that the dict holds.
pop_keys(kwargs, keys) == [k \in DOMAIN kwargs \ keys |-> kwargs[k]]

\* The dict of vlp_curve_beggs_brill_blackoil when it returns or raises: d_in
\* and mu_l_cp stay (the dispatcher passes d and mu), t_f, api and gamma_g
\* are popped in this order until one is missing, then p_ref_psia and
\* z_method.
blackoil_kwargs_after(kwargs) ==
    IF "t_f" \notin DOMAIN kwargs THEN kwargs
    ELSE IF "api" \notin DOMAIN kwargs THEN pop_keys(kwargs, {"t_f"})
    ELSE IF "gamma_g" \notin DOMAIN kwargs THEN pop_keys(kwargs, {"t_f", "api"})
    ELSE pop_keys(kwargs, {"t_f", "api", "gamma_g", "p_ref_psia", "z_method"})

\* The dict that the builder behind a model name holds in the end; the other
\* builders read theirs with kwargs.get.
builder_kwargs_after(model, kwargs) ==
    IF is_blackoil(model) THEN blackoil_kwargs_after(kwargs) ELSE kwargs

\* A call that hands its dict on as it is.
keyword_unpack_Shared(caller, callee_after) == callee_after

\* f(**kwargs) and dict(kwargs): the callee works on a new dict, and what it
\* does to it does not reach the dict of the caller.
keyword_unpack(caller, callee_after) == caller

\* The caller's kwargs after vlp_curve_model(model, q, ..., **kwargs), which
\* calls the builder with **kwargs again.
vlp_kwargs_after(model, kwargs) ==
    keyword_unpack(kwargs, keyword_unpack(kwargs, builder_kwargs_after(model, kwargs)))

\* The caller's vlp_kwargs after nodal_analysis_detail: dict(vlp_kwargs), and
\* vlp_curve_model(vlp_m, q_grid, ..., **vlp_kwargs) when the call gets there.
nodal_vlp_kwargs_after(call) ==
    keyword_unpack(call.vlp_kwargs, vlp_kwargs_after(call.vlp_model, call.vlp_kwargs))

\* The result of a call and the caller's objects after it.
ResultOf(call) ==
    IF call.op = "vlp_curve_model"
    THEN vlp_curve_model_of(call.model, call.q_range, call.well_depth, call.rho, call.mu,
                            call.d, call.kwargs, call.corr, call.pvt)
    ELSE nodal_analysis_detail(call)

ArgumentsAfter(call) ==
    IF call.op = "vlp_curve_model"
    THEN [call EXCEPT !.kwargs = vlp_kwargs_after(call.model, call.kwargs)]
    ELSE [call EXCEPT !.vlp_kwargs = nodal_vlp_kwargs_after(call),
                      !.ipr_kwargs = keyword_unpack(call.ipr_kwargs, call.ipr_kwargs)]

AfterCalls(before, results) == [status |-> "returned", before |-> before, results |-> results]

\* Black-oil kwargs with and without a required key, with p_ref_psia.
PureKwargs ==
    {AllVlpKwargs, AllVlpKwargs @@ Kw1("p_ref_psia", IntF(2000)),
     Kw2("t_f", IntF(180), "api", IntF(35)) @@
     Kw3("rho_g", One, "mu_g", Rat(1, 2), "theta_deg", Zero)}

InitPure ==
    /\ ret = Pending
    /\ \/ \E model \in VlpModels, grid \in DispatchGrids \cup {<<LiquidAlone>>},
             kwargs \in PureKwargs :
              args = VlpCall(model, grid, <<One, One>>, kwargs @@ GasKwargs(grid))
       \/ \E ipr_model \in {S_vogel, S_bogus}, vlp_model \in VlpModels \cup {S_bogus},
             kwargs \in PureKwargs, q_max \in {Zero, One} :
              args = Call("nodal_analysis_detail", IntF(6), q_max, One, One, One, One,
                          NptsMin, <<ipr_model, AllIprKwargs>>,
                          <<vlp_model, kwargs, Ext(Rising)>>)

\* The first call, with the objects of the caller.
CallFirst ==
    /\ ret = Pending
    /\ ret' = AfterCalls(args, <<ResultOf(args)>>)
    /\ args' = ArgumentsAfter(args)

\* The same call again, with the objects as the first call left them.
CallAgain ==
    /\ ret # Pending /\ Len(ret.results) = 1
    /\ ret' = AfterCalls(ret.before, Append(ret.results, ResultOf(args)))
    /\ args' = ArgumentsAfter(args)

NextPure == CallFirst \/ CallAgain

SpecPure == InitPure /\ [][NextPure]_vars

C27_WitnessNodal ==
    /\ ret # Pending /\ Len(ret.results) = 2
    /\ args.op = "nodal_analysis_detail" /\ is_blackoil(args.vlp_model)
    /\ ret.results[2].status = "ok" /\ "t_f" \in DOMAIN args.vlp_kwargs
(***************************************************************************)
(* pvt.build_pvt_table: the entries of the returned dict                   *)
(***************************************************************************)
\* A Python float, and an ndarray with its shape.
PyFloat(x) == [type |-> "float", x |-> x]
NdArray(shape) == [type |-> "ndarray", shape |-> shape]

\* np.asarray(x, dtype=float).shape: () for a number, (n,) for a list.
to_array_shape(p_psia) == IF p_psia.type = "float" THEN <<>> ELSE <<Len(p_psia.a)>>

\* The values of np.asarray(p_psia).
to_array_values(p_psia) == IF p_psia.type = "float" THEN <<p_psia.x>> ELSE p_psia.a

\* np.nanmax: the greatest value that is not NaN, NaN when all are, and
\* ValueError for no value.
nanmax(a) ==
    IF Len(a) = 0 THEN Raised
    ELSE IF \A k \in DOMAIN a : isnan(a[k]) THEN PyFloat(NaN)
    ELSE PyFloat(CHOOSE x \in {a[k] : k \in DOMAIN a} :
                     ~isnan(x) /\ \A k \in DOMAIN a : isnan(a[k]) \/ FLeq(a[k], x))

S_papay == <<"p", "a", "p", "a", "y">>
S_ideal == <<"i", "d", "e", "a", "l">>
S_Ideal_blank == <<"I", "d", "e", "a", "l", " ">>
S_hall == <<"h", "a", "l", "l">>

\* pb and rsb: the arguments, or the Standing correlation of the other one
\* (standing.rs of pb, standing.pb of rsb), or pb = max(P).
bubble_point(p_psia, pb_psia, rsb_scf_stb, standing) ==
    IF pb_psia = None /\ rsb_scf_stb = None THEN nanmax(to_array_values(p_psia))
    ELSE IF pb_psia # None THEN PyFloat(pb_psia)
    ELSE PyFloat(standing.pb)

rsb_at_bubble_point(pb_psia, rsb_scf_stb, standing) ==
    IF rsb_scf_stb = None THEN PyFloat(standing.rs) ELSE PyFloat(rsb_scf_stb)

\* The returned dict: five arrays over the pressures, and float(pb) and
\* float(rsb).
pvt_table(shape, pb, rsb) ==
    [status |-> "ok", P_psia |-> NdArray(shape), Rs_scf_stb |-> NdArray(shape),
     Bo_rb_stb |-> NdArray(shape), Z |-> NdArray(shape), Bg_rb_scf |-> NdArray(shape),
     pb_psia |-> pb, rsb_scf_stb |-> rsb]

build_pvt_table(p_psia, pb_psia, rsb_scf_stb, z_method, standing) ==
    IF bubble_point(p_psia, pb_psia, rsb_scf_stb, standing) = Raised THEN Raised
    ELSE IF strip(lower(z_method)) \notin {S_ideal, S_papay} THEN Raised
    ELSE pvt_table(to_array_shape(p_psia),
                   bubble_point(p_psia, pb_psia, rsb_scf_stb, standing),
                   rsb_at_bubble_point(pb_psia, rsb_scf_stb, standing))

\* The longest pressure vector.
PvtLen == 2

PvtPressures == {IntF(500), IntF(3000), NaN}
PvtVectors ==
    {[type |-> "list", a |-> a] : a \in UNION {[1..n -> PvtPressures] : n \in 0..PvtLen}}
        \cup {[type |-> "float", x |-> IntF(500)]}

InitPvt ==
    /\ ret = Pending
    /\ \E p_psia \in PvtVectors, pb_psia \in {None, IntF(2000)},
          rsb_scf_stb \in {None, IntF(600)},
          z_method \in {S_papay, S_ideal, S_Ideal_blank, S_hall} :
          args = [op |-> "build_pvt_table", p_psia |-> p_psia, pb_psia |-> pb_psia,
                  rsb_scf_stb |-> rsb_scf_stb, z_method |-> z_method,
                  standing |-> [rs |-> IntF(500), pb |-> IntF(2500)]]

CallBuildPvtTable ==
    /\ ret = Pending
    /\ args.op = "build_pvt_table"
    /\ ret' = build_pvt_table(args.p_psia, args.pb_psia, args.rsb_scf_stb, args.z_method,
                              args.standing)
    /\ UNCHANGED args

NextPvt == CallBuildPvtTable

SpecPvt == InitPvt /\ [][NextPvt]_vars

PvtDone == args.op = "build_pvt_table" /\ ret # Pending /\ ret.status = "ok"

\* C28: the five per-pressure entries are arrays of the shape of the
\* pressure vector, and pb_psia and rsb_scf_stb are arrays of shape (1,).
C28_Shapes ==
    PvtDone =>
        /\ \A e \in {ret.P_psia, ret.Rs_scf_stb, ret.Bo_rb_stb, ret.Z, ret.Bg_rb_scf} :
              e = NdArray(to_array_shape(args.p_psia))
        /\ ret.pb_psia = NdArray(<<1>>)
        /\ ret.rsb_scf_stb = NdArray(<<1>>)
(***************************************************************************)
(* _find_intersection: the nearest-point fallback                          *)
(***************************************************************************)
\* d = diff[finite] of the call.
FilteredDiff ==
    LET diff == [i \in 1..FILen |-> FSub(args.y1[i], args.y2[i])]
        idx == MaskIdx(FiniteMask(args.q_grid, args.y1, args.y2, diff), 1)
    IN  [k \in 1..Len(idx) |-> diff[idx[k]]]

\* C29: with at least one finite sample the solver returns through the exact
\* match, the sign change, the no-flow or the grid-limited case and never
\* through the nearest-point fallback; without an exact match and a sign
\* change all finite differences have one strict sign.
C29_FallbackUnreachable ==
    (FIDone /\ FinIdx # {}) =>
        /\ ret # Raised
        /\ intersect_case(FilteredDiff) # "fallback"
        /\ intersect_case(FilteredDiff) \in {"no_flow", "grid_limited"} =>
               \/ \A i \in FinIdx : Dif(i)[1] < 0
               \/ \A i \in FinIdx : Dif(i)[1] > 0

\* Two finite samples of one strict sign around a sample that is dropped.
C29_Witness ==
    /\ FIDone /\ FILen = 3 /\ FinIdx = {1, 3}
    /\ intersect_case(FilteredDiff) = "no_flow"
(***************************************************************************)
(* nodal_analysis_detail: the try statement around vlp_curve_model.        *)
(* The calls pass a kwargs value whose conversion with float() raises.     *)
(***************************************************************************)
ExceptionClasses == {"AttributeError", "ImportError", "TypeError", "ValueError"}

\* The keys that the dispatcher and the multiphase builders convert.
ConvertedKeys == {"theta_deg", "p_wh", "f"}

TryKwargs ==
    {NoKwargs, Kw1("f", IntF(2))}
    \cup { Kw1(key, Unfloatable(exc)) : key \in ConvertedKeys, exc \in ExceptionClasses }
    \cup { Kw2("theta_deg", Unfloatable(exc), "f", IntF(2)) : exc \in ExceptionClasses }

\* vlp_model, the kwargs its builder requires and what the collaborators return
TryModels ==
    { <<S_darcy, NoKwargs, NoExt>>,
      <<S_VLP2, NoKwargs, Ext(Rising)>>,
      <<S_hb, NoKwargs, Ext(Falling)>>,
      <<S_beggs_brill_blackoil,
        Kw3("t_f", IntF(180), "api", IntF(35), "gamma_g", Rat(7, 10)), Ext(Rising)>> }

TryIprChoices == { <<S_vogel, NoKwargs>>, <<S_IPR2, Kw1("J", Rat(1, 3))>> }

InitTry ==
    /\ \E op \in NodalOps, p_res \in PRes, ic \in TryIprChoices, vm \in TryModels,
          kw \in TryKwargs :
          args = Call(op, p_res, One, One, One, One, One, NptsMin, ic,
                      <<vm[1], kw @@ vm[2], vm[3]>>)
    /\ ret = Pending

SpecTry == InitTry /\ [][NextNodal]_vars

TryDone == args.op = "nodal_analysis_detail" /\ ret # Pending

\* The rate grid of the call.
RequestedGrid ==
    LET ipr == ipr_dispatch(norm_model(args.ipr_model), args.p_res, args.q_max,
                            args.npts, args.ipr_kwargs)
    IN  linspace(Zero, q_hi(args.q_max, ipr.q), args.npts)

\* What the requested outflow model gives on the grid of the call.
RequestedCurve ==
    vlp_curve_model(norm_model(args.vlp_model), RequestedGrid, args.well_depth,
                    args.rho, args.mu, args.d, args.vlp_kwargs, args.ext)

\* C30: nodal_analysis_detail never substitutes another outflow model: a
\* returned NodalResult holds in pwf_vlp_on_q the curve of the model named in
\* its vlp_model field, and a failure raised while evaluating the requested
\* model reaches the caller as that error.
C30_NoSubstitution ==
    TryDone =>
        /\ ret.status = "ok" =>
               /\ ret.vlp_model = norm_model(args.vlp_model)
               /\ RequestedCurve.status = "ok"
               /\ ret.pwf_vlp_on_q = RequestedCurve.a
        /\ RequestedCurve.status # "ok" => ret = RequestedCurve

\* A result that names the requested model and holds the curve of vlp_curve.
C30_Substituted ==
    /\ TryDone /\ ret.status = "ok"
    /\ norm_model(args.vlp_model) = S_beggs_brill
    /\ RequestedCurve.status = "AttributeError"
    /\ ret.vlp_model = S_beggs_brill
    /\ ret.pwf_vlp_on_q = vlp_curve(RequestedGrid, args.well_depth, args.rho, args.mu,
                                    args.d, IntF(2)).a

\* The exceptions outside the except clause propagate, and so does an
\* exception of the handler.
C30_OthersPropagate ==
    (TryDone /\ RequestedCurve.status \notin {"ok"} \cup Caught) => ret = RequestedCurve

====
